---- MODULE Spec2Model ----
(***************************************************************************)
(* Model of midterm_440.numeric_core: the ripple-carry ALU (alu.py), the   *)
(* barrel shifter (shifter.py) and the multiply/divide unit (mdu.py).      *)
(*                                                                         *)
(* Representation.                                                         *)
(*   - A Python bit list (LSB first) is a sequence of 0/1; Python index i  *)
(*     is TLA+ index i+1.                                                  *)
(*   - A Python int holding an unsigned 32-bit value (bits_to_u32's       *)
(*     result, MASK32, INT32_MIN) is kept as its four base-256 digits,     *)
(*     least significant first, because the values exceed the range of the *)
(*     model checker's integers.  Wider reference values (64-bit products) *)
(*     are kept as eight such digits.                                      *)
(*   - A call is one action: it reads the operands chosen by Init and the  *)
(*     scalar arguments chosen by the action, and stores what the function *)
(*     returns in ret.                                                     *)
(***************************************************************************)
EXTENDS Integers, Sequences, FiniteSets, TLC

VARIABLES
    pc,     \* "ready" before the call, "done" after it returned
    op,     \* name of the function that was called ("none" before the call)
    a,      \* first operand  (a / bits / rs1_bits / dividend_bits)
    b,      \* second operand (b / rs2_bits / divisor_bits)
    arg,    \* the scalar arguments of the call (trace, signed, shamt)
    ret,    \* the returned value
    locals, \* the local variables of a call that is inside its loop
    calls   \* the calls of the threads that are handed a and b together

vars == <<pc, op, a, b, arg, ret, locals, calls>>

(***************************************************************************)
(* Sizes fixed by the program.                                             *)
(***************************************************************************)
W32 == 32
W33 == 33
W64 == 64

(***************************************************************************)
(* Bound of the model: the number of free low-order bits of the generated  *)
(* operand patterns.                                                       *)
(***************************************************************************)
EdgeBits == 2

(***************************************************************************)
(* One-bit gates on 0/1 values (Python ^, &, | on 0/1 ints).               *)
(***************************************************************************)
Xor(x, y) == IF x = y THEN 0 ELSE 1
And(x, y) == IF x = 1 /\ y = 1 THEN 1 ELSE 0
Or(x, y)  == IF x = 1 \/ y = 1 THEN 1 ELSE 0

RECURSIVE Zeros(_)
\* [0] * n
Zeros(n) == IF n = 0 THEN <<>>
            ELSE IF n = 1 THEN <<0>>
            ELSE Zeros(n \div 2) \o Zeros(n - n \div 2)

RECURSIVE Ones(_)
\* [1] * n
Ones(n) == IF n = 0 THEN <<>>
           ELSE IF n = 1 THEN <<1>>
           ELSE Ones(n \div 2) \o Ones(n - n \div 2)

\* A Python list stores its elements: the comprehension f that describes a
\* list is evaluated, element by element, where the list is built.
ListOf(f) == SubSeq(f, 1, Len(f))

IsBits32(v) == /\ Len(v) = W32
               /\ \A i \in 1..W32 : v[i] \in {0, 1}

(***************************************************************************)
(* bits.py                                                                 *)
(***************************************************************************)
\* 1 << n
Pow2(n) == 2 ^ n

\* A Python int that may lie outside 0..2^32-1 is a record of its sign and
\* the base-256 digits of its magnitude: [neg |-> BOOLEAN, mag |-> digits].
\* value > 0xFFFF_FFFF
AboveU32(value) ==
    ~value.neg /\ \E k \in 5..Len(value.mag) : value.mag[k] # 0

\* value < 0
BelowZero(value) ==
    value.neg /\ \E k \in 1..Len(value.mag) : value.mag[k] # 0

\* _validate_bits_32 of bits.py: the message of the ValueError, "" if none.
validate_bits_32(bits) ==
    IF Len(bits) # W32 THEN "bits must contain exactly 32 elements"
    ELSE IF \E i \in 1..Len(bits) : bits[i] \notin {0, 1}
    THEN "bits must contain only 0 or 1"
    ELSE ""

\* The range check of u32_to_bits: value < 0 or value > 0xFFFF_FFFF.
u32_to_bits_check(value) ==
    IF BelowZero(value) \/ AboveU32(value)
    THEN "value must be in 0..0xFFFFFFFF"
    ELSE ""

BitOfU32_MsbFirst(value, i) ==
    (value[((W32 - 1 - i) \div 8) + 1] \div Pow2((W32 - 1 - i) % 8)) % 2

\* (value >> i) & 1 for a value given by its base-256 digits.
BitOfU32(value, i) == (value[(i \div 8) + 1] \div Pow2(i % 8)) % 2

\* u32_to_bits: bits[i] = (value >> i) & 1 for i in range(32).
u32_to_bits(value) == ListOf([k \in 1..W32 |-> BitOfU32(value, k - 1)])

RECURSIVE OrBits(_, _, _, _)
\* value |= 1 << i for every set bit i of bits[lo..hi-1], inside one digit.
OrBits(bits, lo, hi, value) ==
    IF lo = hi THEN value
    ELSE OrBits(bits, lo + 1, hi,
                IF bits[lo + 1] = 1 THEN value + Pow2(lo % 8) ELSE value)

\* bits_to_u32: the unsigned value of a 32-bit list, as base-256 digits.
bits_to_u32(bits) ==
    ListOf([d \in 1..4 |-> OrBits(bits, 8 * (d - 1), 8 * d, 0)])

HEXDIGITS == <<"0", "1", "2", "3", "4", "5", "6", "7",
               "8", "9", "A", "B", "C", "D", "E", "F">>

\* "".join("1" if b else "0" for b in reversed(bits)), a list of characters.
MsbFirstChars(bits) ==
    ListOf([i \in 1..W32 |-> IF bits[W32 + 1 - i] # 0 THEN "1" ELSE "0"])

\* pretty_bin32: four groups of eight characters, MSB first, joined by "_".
pretty_bin32(bits) ==
    LET m == MsbFirstChars(bits)
    IN  SubSeq(m, 1, 8) \o <<"_">> \o SubSeq(m, 9, 16) \o <<"_">>
        \o SubSeq(m, 17, 24) \o <<"_">> \o SubSeq(m, 25, 32)

\* _NIBBLE_TO_HEX[(b3, b2, b1, b0)]
NIBBLE_TO_HEX(b3, b2, b1, b0) == HEXDIGITS[8 * b3 + 4 * b2 + 2 * b1 + b0 + 1]

\* pretty_hex32: "0x" and one character per nibble, MSB first.
pretty_hex32(bits) ==
    <<"0x">> \o ListOf([n \in 1..8 |->
                 NIBBLE_TO_HEX(bits[W32 + 4 - 4 * n], bits[W32 + 3 - 4 * n],
                               bits[W32 + 2 - 4 * n], bits[W32 + 1 - 4 * n])])

\* f"0x{value:08X}": the prefix and eight upper-case hex digits, MSB first.
Hex08(value) ==
    LET hi(d) == HEXDIGITS[(value[d] \div 16) + 1]
        lo(d) == HEXDIGITS[(value[d] % 16) + 1]
    IN  <<"0x", hi(4), lo(4), hi(3), lo(3), hi(2), lo(2), hi(1), lo(1)>>

(***************************************************************************)
(* Reference arithmetic for the properties: natural numbers as base-256    *)
(* digit sequences, least significant digit first.                         *)
(***************************************************************************)
\* The unsigned value of a bit list whose length is a multiple of 8.
Digits(v) ==
    [d \in 1..(Len(v) \div 8) |->
        LET k == 8 * (d - 1)
        IN  v[k + 1] + 2 * v[k + 2] + 4 * v[k + 3] + 8 * v[k + 4]
            + 16 * v[k + 5] + 32 * v[k + 6] + 64 * v[k + 7] + 128 * v[k + 8]]

RECURSIVE NatAddFrom(_, _, _, _)
NatAddFrom(x, y, k, carry) ==
    IF k > Len(x) THEN <<carry>>
    ELSE LET s == x[k] + y[k] + carry
         IN  <<s % 256>> \o NatAddFrom(x, y, k + 1, s \div 256)

\* x + y + carry for equally long x and y: Len(x) digits and the carry out.
NatAdd(x, y, carry) == NatAddFrom(x, y, 1, carry)

RECURSIVE NatSubFrom(_, _, _, _)
NatSubFrom(x, y, k, borrow) ==
    IF k > Len(x) THEN <<borrow>>
    ELSE LET s == x[k] - y[k] - borrow
         IN  <<s % 256>> \o NatSubFrom(x, y, k + 1, IF s < 0 THEN 1 ELSE 0)

\* (x - y) mod 256^Len(x): Len(x) digits and the borrow out.
NatSub(x, y) == NatSubFrom(x, y, 1, 0)

RECURSIVE NatLessFrom(_, _, _)
NatLessFrom(x, y, k) ==
    IF k = 0 THEN FALSE
    ELSE IF x[k] # y[k] THEN x[k] < y[k]
    ELSE NatLessFrom(x, y, k - 1)

\* x < y for equally long x and y.
NatLess(x, y) == NatLessFrom(x, y, Len(x))

Low(x, n) == SubSeq(x, 1, n)

\* x padded with zero digits to n digits.
Pad(x, n) == x \o [k \in 1..(n - Len(x)) |-> 0]

RECURSIVE NatMulDigitFrom(_, _, _, _)
NatMulDigitFrom(x, d, k, carry) ==
    IF k > Len(x) THEN <<carry>>
    ELSE LET s == x[k] * d + carry
         IN  <<s % 256>> \o NatMulDigitFrom(x, d, k + 1, s \div 256)

RECURSIVE NatMul(_, _)
\* x * y, exactly: Len(x) + Len(y) digits.
NatMul(x, y) ==
    IF y = <<>> THEN [k \in 1..Len(x) |-> 0]
    ELSE LET n    == Len(x) + Len(y)
             row  == Pad(NatMulDigitFrom(x, y[1], 1, 0), n)
             rest == <<0>> \o NatMul(x, Tail(y))
         IN  Low(NatAdd(row, rest, 0), n)

TwoTo31 == <<0, 0, 0, 128>>

\* The sign of a 32-bit list read as two's complement.
IsNeg(v) == v[Len(v)] = 1

\* |v| for a 32-bit list read as two's complement (at most 2^31).
Mag(v) ==
    IF IsNeg(v) THEN Low(NatSub(<<0, 0, 0, 0, 1>>, Pad(Digits(v), 5)), 4)
    ELSE Digits(v)

NatIsZero(x) == \A k \in 1..Len(x) : x[k] = 0

(***************************************************************************)
(* alu.py                                                                  *)
(***************************************************************************)
\* _validate_bits_32(a, b): the error it raises, "" if none.
alu_validate_bits_32(x, y) ==
    IF Len(x) # W32 \/ Len(y) # W32 THEN "a and b must be 32 bits long"
    ELSE IF \E k \in 1..W32 : x[k] \notin {0, 1} \/ y[k] \notin {0, 1}
    THEN "bits must be 0/1"
    ELSE ""

FullAdder_NoPropagate(ai, bi, cin) ==
    [s |-> Xor(Xor(ai, bi), cin), cout |-> And(ai, bi)]

\* One full adder (the body of the ripple loop).
FullAdder(ai, bi, cin) ==
    LET axb == Xor(ai, bi)
    IN  [s |-> Xor(axb, cin), cout |-> Or(And(ai, bi), And(cin, axb))]

\* The state of the ripple loop before its first iteration.
RippleInit(x, y, cin0, trace) ==
    [i |-> 0, out |-> Zeros(W32), cin |-> cin0,
     carry_into_msb |-> 0, carry_out_msb |-> 0,
     steps |-> IF trace
               THEN <<[phase |-> "start", a_hex |-> Hex08(bits_to_u32(x)),
                       b_hex |-> Hex08(bits_to_u32(y)), cin |-> cin0]>>
               ELSE <<>>]

RippleStep_CarryOnlyWhenTraced(x, y, st, trace) ==
    LET i  == st.i
        fa == FullAdder(x[i + 1], y[i + 1], st.cin)
    IN  [i |-> i + 1,
         out |-> [st.out EXCEPT ![i + 1] = fa.s],
         cin |-> IF trace THEN fa.cout ELSE st.cin,
         carry_into_msb |-> IF i = W32 - 1 THEN st.cin ELSE st.carry_into_msb,
         carry_out_msb |-> IF i = W32 - 1 THEN fa.cout ELSE st.carry_out_msb,
         steps |-> IF trace
                   THEN Append(st.steps,
                               [phase |-> "iter", bit |-> i, ai |-> x[i + 1],
                                bi |-> y[i + 1], cin |-> st.cin,
                                sum_bit |-> fa.s, cout |-> fa.cout])
                   ELSE st.steps]

RippleStep_TwoRowsPerBit(x, y, st, trace) ==
    LET i   == st.i
        fa  == FullAdder(x[i + 1], y[i + 1], st.cin)
        row == [phase |-> "iter", bit |-> i, ai |-> x[i + 1],
                bi |-> y[i + 1], cin |-> st.cin,
                sum_bit |-> fa.s, cout |-> fa.cout]
    IN  [i |-> i + 1,
         out |-> [st.out EXCEPT ![i + 1] = fa.s],
         cin |-> fa.cout,
         carry_into_msb |-> IF i = W32 - 1 THEN st.cin ELSE st.carry_into_msb,
         carry_out_msb |-> IF i = W32 - 1 THEN fa.cout ELSE st.carry_out_msb,
         steps |-> IF trace THEN Append(Append(st.steps, row), row)
                   ELSE st.steps]

\* One iteration of "for i in range(32)" (i is st.i).
RippleStep(x, y, st, trace) ==
    LET i  == st.i
        fa == FullAdder(x[i + 1], y[i + 1], st.cin)
    IN  [i |-> i + 1,
         out |-> [st.out EXCEPT ![i + 1] = fa.s],
         cin |-> fa.cout,
         carry_into_msb |-> IF i = W32 - 1 THEN st.cin ELSE st.carry_into_msb,
         carry_out_msb |-> IF i = W32 - 1 THEN fa.cout ELSE st.carry_out_msb,
         steps |-> IF trace
                   THEN Append(st.steps,
                               [phase |-> "iter", bit |-> i, ai |-> x[i + 1],
                                bi |-> y[i + 1], cin |-> st.cin,
                                sum_bit |-> fa.s, cout |-> fa.cout])
                   ELSE st.steps]

RECURSIVE RippleLoop(_, _, _, _, _)
\* The iterations st.i .. upto-1 of the loop, in order (the range is run as
\* its first half followed by its second half).
RippleLoop(x, y, upto, st, trace) ==
    IF st.i = upto THEN st
    ELSE IF upto - st.i = 1 THEN RippleStep(x, y, st, trace)
    ELSE RippleLoop(x, y, upto,
                    RippleLoop(x, y, st.i + (upto - st.i) \div 2, st, trace),
                    trace)

\* N = out[31]
FlagN(out) == out[W32]

\* Z = 1 if all(bit == 0 for bit in out) else 0
FlagZ(out) == IF \A i \in 1..W32 : out[i] = 0 THEN 1 ELSE 0

FlagV_CarryOut(carry_into_msb, carry_out_msb) == carry_out_msb

\* V = 1 if carry_into_msb != carry_out_msb else 0
FlagV(carry_into_msb, carry_out_msb) ==
    IF carry_into_msb # carry_out_msb THEN 1 ELSE 0

\* _add_bits_with_cin: the 5-tuple, or the dict with the trace.
add_bits_with_cin(x, y, cin0, trace) ==
    LET st == RippleLoop(x, y, W32, RippleInit(x, y, cin0, trace), trace)
        N  == FlagN(st.out)
        Z  == FlagZ(st.out)
        C  == st.cin
        V  == FlagV(st.carry_into_msb, st.carry_out_msb)
    IN  [sum_bits |-> st.out, N |-> N, Z |-> Z, C |-> C, V |-> V,
         trace |-> IF trace
                   THEN Append(st.steps,
                               [phase |-> "finish",
                                result_hex |-> Hex08(bits_to_u32(st.out)),
                                N |-> N, Z |-> Z, C |-> C, V |-> V])
                   ELSE <<>>]

add_bits(x, y, trace) == add_bits_with_cin(x, y, 0, trace)

invert_bits(bits) ==
    ListOf([i \in 1..Len(bits) |-> IF bits[i] = 1 THEN 0 ELSE 1])

sub_bits_NoCarryIn(x, y, trace) ==
    add_bits_with_cin(x, invert_bits(y), 0, trace)

sub_bits(x, y, trace) == add_bits_with_cin(x, invert_bits(y), 1, trace)

(***************************************************************************)
(* shifter.py                                                              *)
(***************************************************************************)
\* _validate_bits_32(bits): the error it raises, "" if none.
shifter_validate_bits_32(bits) ==
    IF Len(bits) # W32 THEN "bits must have length 32"
    ELSE IF \E k \in 1..W32 : bits[k] \notin {0, 1}
    THEN "bits must contain only 0/1"
    ELSE ""

validate_shamt_Allows32(shamt) ==
    IF shamt < 0 \/ shamt > W32 THEN "shamt must be in 0..31" ELSE ""

\* _validate_shamt(shamt): the error it raises, "" if none.
validate_shamt(shamt) ==
    IF shamt < 0 \/ shamt > 31 THEN "shamt must be in 0..31" ELSE ""

\* The checks at the start of sll_bits, srl_bits and sra_bits.
shift_check(bits, shamt) ==
    IF shifter_validate_bits_32(bits) # "" THEN shifter_validate_bits_32(bits)
    ELSE validate_shamt(shamt)

ShamtBit_FirstStageAlways(k, idx) ==
    IF idx = 0 THEN 1 ELSE (k \div Pow2(idx)) % 2

\* (k >> idx) & 1
ShamtBit(k, idx) == (k \div Pow2(idx)) % 2

\* _shift_left_by_k: out[i] = src[i-k] if i >= k else fill.
shift_left_by_k(src, k, fill) ==
    ListOf([n \in 1..W32 |-> IF n - 1 >= k THEN src[n - k] ELSE fill])

\* _shift_right_by_k: out[i] = src[i+k] if i+k < 32 else fill.
shift_right_by_k(src, k, fill) ==
    ListOf([n \in 1..W32 |-> IF (n - 1) + k < W32 THEN src[n + k] ELSE fill])

\* stages = (1, 2, 4, 8, 16)
STAGES == <<1, 2, 4, 8, 16>>

RECURSIVE SllLoop(_, _)
\* "for idx, st in enumerate(stages)" from st.idx on; st holds idx and out.
SllLoop(st, k) ==
    IF st.idx = Len(STAGES) THEN st.out
    ELSE SllLoop([idx |-> st.idx + 1,
                  out |-> IF ShamtBit(k, st.idx) = 1
                          THEN shift_left_by_k(st.out, STAGES[st.idx + 1], 0)
                          ELSE st.out],
                 k)

RECURSIVE SrlLoop(_, _)
SrlLoop(st, k) ==
    IF st.idx = Len(STAGES) THEN st.out
    ELSE SrlLoop([idx |-> st.idx + 1,
                  out |-> IF ShamtBit(k, st.idx) = 1
                          THEN shift_right_by_k(st.out, STAGES[st.idx + 1], 0)
                          ELSE st.out],
                 k)

RECURSIVE SraLoop(_, _, _)
SraLoop(st, k, sign) ==
    IF st.idx = Len(STAGES) THEN st.out
    ELSE SraLoop([idx |-> st.idx + 1,
                  out |-> IF ShamtBit(k, st.idx) = 1
                          THEN shift_right_by_k(st.out, STAGES[st.idx + 1], sign)
                          ELSE st.out],
                 k, sign)

sll_bits(bits, shamt) == SllLoop([idx |-> 0, out |-> bits], shamt)

srl_bits(bits, shamt) == SrlLoop([idx |-> 0, out |-> bits], shamt)

sra_bits_ZeroFill(bits, shamt) == SraLoop([idx |-> 0, out |-> bits], shamt, 0)

\* sign = bits[31], the original MSB, is the fill of every stage.
sra_bits(bits, shamt) == SraLoop([idx |-> 0, out |-> bits], shamt, bits[W32])

(***************************************************************************)
(* mdu.py: helpers                                                         *)
(***************************************************************************)
\* _check32(bits): the error it raises, "" if none.
check32(bits) ==
    IF Len(bits) # W32 THEN "need 32 bits"
    ELSE IF \E k \in 1..W32 : bits[k] \notin {0, 1} THEN "bits must be 0/1"
    ELSE ""

\* The checks at the start of mul_shift_add and div_restoring.
mdu_check(x, y) == IF check32(x) # "" THEN check32(x) ELSE check32(y)

\* MASK32 = 0xFFFF_FFFF and INT32_MIN = 0x80000000, as base-256 digits.
MASK32 == <<255, 255, 255, 255>>
INT32_MIN == <<0, 0, 0, 128>>

not_bits(bits) ==
    ListOf([i \in 1..Len(bits) |-> IF bits[i] = 1 THEN 0 ELSE 1])

FullAdderN_NoPropagate(ai, bi, cin) ==
    [s |-> Xor(Xor(ai, bi), cin), cout |-> And(ai, bi)]

\* The full adder inside _add_n's loop.
FullAdderN(ai, bi, cin) ==
    LET axb == Xor(ai, bi)
    IN  [s |-> Xor(axb, cin), cout |-> Or(And(ai, bi), And(cin, axb))]

\* One iteration of "for i in range(len(a))"; st holds i, out and cin.
AddNStep(x, y, st) ==
    LET fa == FullAdderN(x[st.i + 1], y[st.i + 1], st.cin)
    IN  [i |-> st.i + 1,
         out |-> [st.out EXCEPT ![st.i + 1] = fa.s],
         cin |-> fa.cout]

RECURSIVE AddNLoop(_, _, _, _)
\* The iterations st.i .. upto-1 of the loop, in order (the range is run as
\* its first half followed by its second half).
AddNLoop(x, y, upto, st) ==
    IF st.i = upto THEN st
    ELSE IF upto - st.i = 1 THEN AddNStep(x, y, st)
    ELSE AddNLoop(x, y, upto,
                  AddNLoop(x, y, st.i + (upto - st.i) \div 2, st))

\* _add_n: ripple add of two equally long lists, (sum_bits, carry_out).
add_n(x, y) ==
    IF Len(x) # Len(y) THEN [error |-> "lengths must match"]
    ELSE LET st == AddNLoop(x, y, Len(x),
                            [i |-> 0, out |-> Zeros(Len(x)), cin |-> 0])
         IN  [sum |-> st.out, cout |-> st.cin]

\* [1] + [0] * (n - 1)
OneN(n) == ListOf([i \in 1..n |-> IF i = 1 THEN 1 ELSE 0])

\* _sub_n: a + ~b, then + 1; borrow from the second addition's carry.
sub_n(x, y) ==
    LET tmp  == add_n(x, not_bits(y))
        fin  == add_n(tmp.sum, OneN(Len(x)))
    IN  [diff |-> fin.sum, borrow |-> IF fin.cout = 1 THEN 0 ELSE 1]

\* stages = (1, 2, 4, 8, 16, 32, 64)
STAGES_N == <<1, 2, 4, 8, 16, 32, 64>>

\* One stage of _sll_n: tmp[i] = out[i - st] for i >= st, else 0.
SllNStage(out, st) ==
    ListOf([n \in 1..Len(out) |-> IF n - 1 >= st THEN out[n - st] ELSE 0])

RECURSIVE SllNLoop(_, _)
SllNLoop(st, k) ==
    IF st.idx = Len(STAGES_N) THEN st.out
    ELSE SllNLoop([idx |-> st.idx + 1,
                   out |-> IF ShamtBit(k, st.idx) = 1
                           THEN SllNStage(st.out, STAGES_N[st.idx + 1])
                           ELSE st.out],
                  k)

\* _sll_n: barrel shift left of a list of any length.
sll_n(bits, k) == SllNLoop([idx |-> 0, out |-> bits], k)

\* _sign_extend_to_64: x[:] + [x[31]] * 32
sign_extend_to_64(x) == x \o [i \in 1..(W64 - W32) |-> x[W32]]

\* _twos_neg: ~bits + 1, carry dropped.
twos_neg(bits) == add_n(not_bits(bits), OneN(Len(bits))).sum

\* _is_zero
is_zero(bits) == \A i \in 1..Len(bits) : bits[i] = 0

\* _abs_sign: (abs_bits, sign)
abs_sign(bits) ==
    IF bits[W32] = 1 THEN [abs |-> twos_neg(bits), sign |-> 1]
    ELSE [abs |-> bits, sign |-> 0]

\* _clip32: x[:32]
clip32(x) == SubSeq(x, 1, W32)

(***************************************************************************)
(* mdu.py: mul_shift_add                                                   *)
(***************************************************************************)
MulStep_SubtractsAtBit31(a64, b32, st, trace) ==
    LET i       == st.i
        add_now == IF b32[i + 1] = 1 THEN 1 ELSE 0
        acc     == IF add_now = 1
                   THEN (IF i = W32 - 1 THEN sub_n(st.acc, sll_n(a64, i)).diff
                         ELSE add_n(st.acc, sll_n(a64, i)).sum)
                   ELSE st.acc
    IN  [i |-> i + 1,
         acc |-> acc,
         rows |-> IF trace
                  THEN Append(st.rows,
                              [step |-> i, mul_bit |-> b32[i + 1],
                               added |-> add_now,
                               acc_low32_hex |->
                                   Hex08(bits_to_u32(SubSeq(acc, 1, W32))),
                               acc_hi32_hex |->
                                   Hex08(bits_to_u32(SubSeq(acc, W32 + 1, W64)))])
                  ELSE st.rows]

MulStep_RowsOnlyWhenAdded(a64, b32, st, trace) ==
    LET i       == st.i
        add_now == IF b32[i + 1] = 1 THEN 1 ELSE 0
        acc     == IF add_now = 1 THEN add_n(st.acc, sll_n(a64, i)).sum
                   ELSE st.acc
    IN  [i |-> i + 1,
         acc |-> acc,
         rows |-> IF trace /\ add_now = 1
                  THEN Append(st.rows,
                              [step |-> i, mul_bit |-> b32[i + 1],
                               added |-> add_now,
                               acc_low32_hex |->
                                   Hex08(bits_to_u32(SubSeq(acc, 1, W32))),
                               acc_hi32_hex |->
                                   Hex08(bits_to_u32(SubSeq(acc, W32 + 1, W64)))])
                  ELSE st.rows]

\* One iteration of the multiplier loop; st holds i, acc and the trace rows.
MulStep(a64, b32, st, trace) ==
    LET i       == st.i
        add_now == IF b32[i + 1] = 1 THEN 1 ELSE 0
        acc     == IF add_now = 1 THEN add_n(st.acc, sll_n(a64, i)).sum
                   ELSE st.acc
    IN  [i |-> i + 1,
         acc |-> acc,
         rows |-> IF trace
                  THEN Append(st.rows,
                              [step |-> i, mul_bit |-> b32[i + 1],
                               added |-> add_now,
                               acc_low32_hex |->
                                   Hex08(bits_to_u32(SubSeq(acc, 1, W32))),
                               acc_hi32_hex |->
                                   Hex08(bits_to_u32(SubSeq(acc, W32 + 1, W64)))])
                  ELSE st.rows]

RECURSIVE MulLoop(_, _, _, _, _)
\* The loop from st on, up to (not including) iteration upto.
MulLoop(a64, b32, upto, st, trace) ==
    IF st.i = upto THEN st
    ELSE IF upto - st.i = 1 THEN MulStep(a64, b32, st, trace)
    ELSE MulLoop(a64, b32, upto,
                 MulLoop(a64, b32, st.i + (upto - st.i) \div 2, st, trace),
                 trace)

\* overflow = 1 iff some acc[j], 32 <= j < 64, differs from rd_bits[31].
MulOverflow(acc) ==
    IF \E j \in (W32 + 1)..W64 : acc[j] # acc[W32] THEN 1 ELSE 0

\* The accumulator and trace rows after the first n iterations of the loop.
MulAfter(rs1_bits, rs2_bits, n, trace) ==
    MulLoop(sign_extend_to_64(rs1_bits), rs2_bits, n,
            [i |-> 0, acc |-> Zeros(W64), rows |-> <<>>], trace)

mul_shift_add(rs1_bits, rs2_bits, trace) ==
    LET st == MulAfter(rs1_bits, rs2_bits, W32, trace)
    IN  [rd_bits |-> SubSeq(st.acc, 1, W32),
         overflow |-> MulOverflow(st.acc),
         trace |-> IF trace THEN st.rows ELSE <<>>]

(***************************************************************************)
(* mdu.py: div_restoring                                                   *)
(***************************************************************************)
\* The "start" record, when tracing.
DivStart(dividend_bits, divisor_bits, signed, trace) ==
    IF trace
    THEN <<[phase |-> "start",
            dividend_hex |-> Hex08(bits_to_u32(dividend_bits)),
            divisor_hex |-> Hex08(bits_to_u32(divisor_bits)),
            signed |-> signed]>>
    ELSE <<>>

DivByZeroResult_ZeroQuotient(dividend_bits, rows, trace) ==
    [q_bits |-> Zeros(W32), r_bits |-> dividend_bits,
     flags |-> [div_by_zero |-> 1, overflow |-> 0],
     trace |-> IF trace
               THEN Append(rows, [phase |-> "finish", note |-> "div-by-zero",
                                  q_hex |-> Hex08(bits_to_u32(Zeros(W32))),
                                  r_hex |-> Hex08(bits_to_u32(dividend_bits))])
               ELSE <<>>]

\* The divide-by-zero return: quotient all ones, remainder = dividend.
DivByZeroResult(dividend_bits, rows, trace) ==
    LET q_bits == Ones(W32)
        r_bits == dividend_bits
    IN  [q_bits |-> q_bits, r_bits |-> r_bits,
         flags |-> [div_by_zero |-> 1, overflow |-> 0],
         trace |-> IF trace
                   THEN Append(rows, [phase |-> "finish", note |-> "div-by-zero",
                                      q_hex |-> Hex08(bits_to_u32(q_bits)),
                                      r_hex |-> Hex08(bits_to_u32(r_bits))])
                   ELSE <<>>]

IsIntMinByMinus1_AnyMode(dividend_bits, divisor_bits, signed) ==
    /\ bits_to_u32(dividend_bits) = INT32_MIN
    /\ bits_to_u32(divisor_bits) = MASK32

\* if signed: if dividend == INT32_MIN and divisor == MASK32
IsIntMinByMinus1(dividend_bits, divisor_bits, signed) ==
    /\ signed
    /\ bits_to_u32(dividend_bits) = INT32_MIN
    /\ bits_to_u32(divisor_bits) = MASK32

\* The INT_MIN / -1 return: quotient INT_MIN, remainder 0, overflow = 1.
DivOverflowResult(rows, trace) ==
    LET q_bits == u32_to_bits(INT32_MIN)
        r_bits == u32_to_bits(<<0, 0, 0, 0>>)
        flags  == [div_by_zero |-> 0, overflow |-> 1]
    IN  [q_bits |-> q_bits, r_bits |-> r_bits, flags |-> flags,
         trace |-> IF trace
                   THEN Append(rows, [phase |-> "finish",
                                      note |-> "INT_MIN / -1 special",
                                      q_hex |-> Hex08(bits_to_u32(q_bits)),
                                      r_hex |-> Hex08(bits_to_u32(r_bits)),
                                      flags |-> flags])
                   ELSE <<>>]

\* dvd_abs, dvs_abs and q_sign of the signed and the unsigned path.
DivMagnitudes(dividend_bits, divisor_bits, signed) ==
    IF signed
    THEN LET dvd == abs_sign(dividend_bits)
             dvs == abs_sign(divisor_bits)
         IN  [dvd_abs |-> dvd.abs, dvs_abs |-> dvs.abs,
              q_sign |-> Xor(dvd.sign, dvs.sign)]
    ELSE [dvd_abs |-> dividend_bits, dvs_abs |-> divisor_bits, q_sign |-> 0]

\* One iteration of the restoring loop: shift (R,Q) left, try R - D33,
\* restore when the difference's bit 32 is set.
\* The loop body without the restore: R is always the difference.
DivStep_KeepsDifference(D33, st, trace) ==
    LET step  == st.step
        msb_q == st.Q[W32]
        Rs    == <<msb_q>> \o SubSeq(st.R, 1, W32)
        Qs    == <<0>> \o SubSeq(st.Q, 1, W32 - 1)
        try   == sub_n(Rs, D33)
        neg   == try.diff[W33] = 1
        qb    == IF neg THEN 0 ELSE 1
        R2    == try.diff
        Q2    == [Qs EXCEPT ![1] = qb]
    IN  [step |-> step + 1, R |-> R2, Q |-> Q2,
         rows |-> IF trace
                  THEN Append(st.rows,
                              [phase |-> "iter", step |-> step, qb |-> qb,
                               R_top_hex |-> Hex08(bits_to_u32(SubSeq(R2, 2, W33))),
                               Q_hex |-> Hex08(bits_to_u32(Q2))])
                  ELSE st.rows]

DivStep(D33, st, trace) ==
    LET step  == st.step
        msb_q == st.Q[W32]
        Rs    == <<msb_q>> \o SubSeq(st.R, 1, W32)
        Qs    == <<0>> \o SubSeq(st.Q, 1, W32 - 1)
        try   == sub_n(Rs, D33)
        neg   == try.diff[W33] = 1
        qb    == IF neg THEN 0 ELSE 1
        R2    == IF neg THEN Rs ELSE try.diff
        Q2    == [Qs EXCEPT ![1] = qb]
    IN  [step |-> step + 1, R |-> R2, Q |-> Q2,
         rows |-> IF trace
                  THEN Append(st.rows,
                              [phase |-> "iter", step |-> step, qb |-> qb,
                               R_top_hex |-> Hex08(bits_to_u32(SubSeq(R2, 2, W33))),
                               Q_hex |-> Hex08(bits_to_u32(Q2))])
                  ELSE st.rows]

RECURSIVE DivLoop(_, _, _, _)
\* The loop from st on, up to (not including) iteration upto.
DivLoop(D33, upto, st, trace) ==
    IF st.step = upto THEN st
    ELSE IF upto - st.step = 1 THEN DivStep(D33, st, trace)
    ELSE DivLoop(D33, upto,
                 DivLoop(D33, st.step + (upto - st.step) \div 2, st, trace),
                 trace)

\* The registers and trace rows after the first n iterations.
DivAfter(dvd_abs, dvs_abs, n, rows, trace) ==
    DivLoop(dvs_abs \o <<0>>, n,
            [step |-> 0, R |-> Zeros(W33), Q |-> dvd_abs, rows |-> rows], trace)

FixQuotient_NoNegate(q_bits_unsigned, signed, q_sign) == q_bits_unsigned

\* if signed and q_sign == 1: negate the quotient.
FixQuotient(q_bits_unsigned, signed, q_sign) ==
    IF signed /\ q_sign = 1 THEN twos_neg(q_bits_unsigned) ELSE q_bits_unsigned

FixRemainder_QuotientSign(r_bits_unsigned, signed, dividend_bits, q_sign) ==
    IF signed /\ q_sign = 1 /\ ~is_zero(r_bits_unsigned)
    THEN twos_neg(r_bits_unsigned) ELSE r_bits_unsigned

\* if signed and dividend_bits[31] == 1: negate a non-zero remainder.
FixRemainder(r_bits_unsigned, signed, dividend_bits, q_sign) ==
    IF signed /\ dividend_bits[W32] = 1 /\ ~is_zero(r_bits_unsigned)
    THEN twos_neg(r_bits_unsigned) ELSE r_bits_unsigned

div_restoring(dividend_bits, divisor_bits, signed, trace) ==
    LET start == DivStart(dividend_bits, divisor_bits, signed, trace)
    IN  IF is_zero(divisor_bits)
        THEN DivByZeroResult(dividend_bits, start, trace)
        ELSE IF IsIntMinByMinus1(dividend_bits, divisor_bits, signed)
        THEN DivOverflowResult(start, trace)
        ELSE
          LET m      == DivMagnitudes(dividend_bits, divisor_bits, signed)
              st     == DivAfter(m.dvd_abs, m.dvs_abs, W32, start, trace)
              q_bits == clip32(FixQuotient(st.Q, signed, m.q_sign))
              r_bits == clip32(FixRemainder(SubSeq(st.R, 1, W32), signed,
                                            dividend_bits, m.q_sign))
              flags  == [div_by_zero |-> 0, overflow |-> 0]
          IN  [q_bits |-> q_bits, r_bits |-> r_bits, flags |-> flags,
               trace |-> IF trace
                         THEN Append(st.rows,
                                     [phase |-> "finish",
                                      q_hex |-> Hex08(bits_to_u32(q_bits)),
                                      r_hex |-> Hex08(bits_to_u32(r_bits)),
                                      flags |-> flags])
                         ELSE <<>>]

(***************************************************************************)
(* Operands.  Every pattern has EdgeBits free low bits under one of four   *)
(* fills of the remaining bits (0..0, 1..1, 10..0, 01..1), which gives the *)
(* values around 0, -1, INT32_MIN and INT32_MAX; the named patterns are    *)
(* the operands of the repository's tests and examples.                    *)
(***************************************************************************)
Fills == {"zeros", "ones", "min", "max"}

EdgeVector(fill, low) ==
    [k \in 1..W32 |->
        IF k <= EdgeBits THEN (low \div Pow2(k - 1)) % 2
        ELSE CASE fill = "zeros" -> 0
               [] fill = "ones"  -> 1
               [] fill = "min"   -> IF k = W32 THEN 1 ELSE 0
               [] fill = "max"   -> IF k = W32 THEN 0 ELSE 1]

EdgeVectors == {EdgeVector(f, low) : f \in Fills, low \in 0..(Pow2(EdgeBits) - 1)}

NamedVectors ==
    { u32_to_bits(<<78, 97, 188, 0>>),      \* 12345678   = 0x00BC614E
      u32_to_bits(<<79, 128, 198, 250>>),   \* -87654321  = 0xFAC6804F
      u32_to_bits(<<249, 255, 255, 255>>),  \* -7         = 0xFFFFFFF9
      u32_to_bits(<<165, 165, 165, 165>>),  \* 0xA5A5A5A5
      u32_to_bits(<<123, 0, 0, 0>>) }       \* 123

Operands == EdgeVectors \cup NamedVectors

(***************************************************************************)
(* The calls.  A call that raises ends with pc = "raised" and the message  *)
(* of the exception in ret; nothing else is returned.                      *)
(***************************************************************************)
\* The second operand of a call that takes a single bit list.
NoOperand == <<>>

\* No call is inside a loop.
NoLocals == <<>>

\* No thread has been started.
NoCalls == <<>>

\* Python ints offered to the calls: plus and minus every operand's value v
\* and v + 2^32 (zero is offered once, as a non-negative int).
IntInputs ==
    {[neg |-> s, mag |-> Digits(v) \o <<h>>] :
        s \in BOOLEAN, v \in Operands, h \in 0..1}
    \ {[neg |-> TRUE, mag |-> <<0, 0, 0, 0, 0>>]}

\* The shift amounts offered to the shifts, valid and invalid.
ShiftAmounts == (0 - 1)..W32

\* The end of a call of name: the exception e if there is one, else value.
Finish(name, e, value) ==
    /\ op' = name
    /\ pc' = IF e # "" THEN "raised" ELSE "done"
    /\ ret' = IF e # "" THEN e ELSE value

Called(name) == pc = "done" /\ op = name

\* add_bits(a, b, trace=t)
Add ==
    /\ pc = "ready"
    /\ b # NoOperand
    /\ \E t \in BOOLEAN :
          /\ arg' = [trace |-> t]
          /\ Finish("add", alu_validate_bits_32(a, b), add_bits(a, b, t))
    /\ UNCHANGED <<a, b, locals, calls>>

\* sub_bits(a, b, trace=t)
Sub ==
    /\ pc = "ready"
    /\ b # NoOperand
    /\ \E t \in BOOLEAN :
          /\ arg' = [trace |-> t]
          /\ Finish("sub", alu_validate_bits_32(a, b), sub_bits(a, b, t))
    /\ UNCHANGED <<a, b, locals, calls>>

\* mul_shift_add(a, b, trace=t)
Mul ==
    /\ pc = "ready"
    /\ b # NoOperand
    /\ \E t \in BOOLEAN :
          /\ arg' = [trace |-> t]
          /\ Finish("mul", mdu_check(a, b), mul_shift_add(a, b, t))
    /\ UNCHANGED <<a, b, locals, calls>>

\* div_restoring(a, b, signed=sg, trace=t)
Div ==
    /\ pc = "ready"
    /\ b # NoOperand
    /\ \E sg \in BOOLEAN, t \in BOOLEAN :
          /\ arg' = [trace |-> t, signed |-> sg]
          /\ Finish("div", mdu_check(a, b), div_restoring(a, b, sg, t))
    /\ UNCHANGED <<a, b, locals, calls>>

\* sll_bits(a, k)
Sll ==
    /\ pc = "ready"
    /\ b = NoOperand
    /\ \E k \in ShiftAmounts :
          /\ arg' = [shamt |-> k]
          /\ Finish("sll", shift_check(a, k), sll_bits(a, k))
    /\ UNCHANGED <<a, b, locals, calls>>

\* srl_bits(a, k)
Srl ==
    /\ pc = "ready"
    /\ b = NoOperand
    /\ \E k \in ShiftAmounts :
          /\ arg' = [shamt |-> k]
          /\ Finish("srl", shift_check(a, k), srl_bits(a, k))
    /\ UNCHANGED <<a, b, locals, calls>>

\* sra_bits(a, k)
Sra ==
    /\ pc = "ready"
    /\ b = NoOperand
    /\ \E k \in ShiftAmounts :
          /\ arg' = [shamt |-> k]
          /\ Finish("sra", shift_check(a, k), sra_bits(a, k))
    /\ UNCHANGED <<a, b, locals, calls>>


\* u32_to_bits(v)
U32ToBits ==
    /\ pc = "ready"
    /\ b = NoOperand
    /\ \E v \in IntInputs :
          /\ arg' = [value |-> v]
          /\ Finish("u32_to_bits", u32_to_bits_check(v),
                    u32_to_bits(SubSeq(v.mag, 1, 4)))
    /\ UNCHANGED <<a, b, locals, calls>>

\* bits_to_u32(a)
BitsToU32 ==
    /\ pc = "ready"
    /\ b = NoOperand
    /\ arg' = [trace |-> FALSE]
    /\ Finish("bits_to_u32", validate_bits_32(a), bits_to_u32(a))
    /\ UNCHANGED <<a, b, locals, calls>>

\* pretty_bin32(a)
PrettyBin ==
    /\ pc = "ready"
    /\ b = NoOperand
    /\ arg' = [trace |-> FALSE]
    /\ Finish("pretty_bin32", validate_bits_32(a), pretty_bin32(a))
    /\ UNCHANGED <<a, b, locals, calls>>

\* pretty_hex32(a)
PrettyHex ==
    /\ pc = "ready"
    /\ b = NoOperand
    /\ arg' = [trace |-> FALSE]
    /\ Finish("pretty_hex32", validate_bits_32(a), pretty_hex32(a))
    /\ UNCHANGED <<a, b, locals, calls>>


(***************************************************************************)
(* twos.py                                                                 *)
(***************************************************************************)
InInt32_ExclusiveMin(value) ==
    /\ \A k \in 5..Len(value.mag) : value.mag[k] = 0
    /\ value.mag[4] < 128

\* _INT32_MIN <= value <= _INT32_MAX
InInt32(value) ==
    /\ \A k \in 5..Len(value.mag) : value.mag[k] = 0
    /\ \/ value.mag[4] < 128
       \/ value.neg /\ SubSeq(value.mag, 1, 4) = <<0, 0, 0, 128>>

\* value & _MASK32: the low 32 bits of the two's-complement form of value
\* (for a negative value, 2^32 minus the low 32 bits of its magnitude).
AndMask32(value) ==
    IF value.neg
    THEN SubSeq(NatSub(<<0, 0, 0, 0>>, SubSeq(value.mag, 1, 4)), 1, 4)
    ELSE SubSeq(value.mag, 1, 4)

\* encode_twos_complement
encode_twos_complement(value) ==
    LET overflow == IF InInt32(value) THEN 0 ELSE 1
        unsigned == AndMask32(value)
        bits     == u32_to_bits(unsigned)
    IN  [bin |-> pretty_bin32(bits), hex |-> pretty_hex32(bits),
         overflow_flag |-> overflow]

\* encode_twos_complement(v)
Encode ==
    /\ pc = "ready"
    /\ b = NoOperand
    /\ \E v \in IntInputs :
          /\ arg' = [value |-> v]
          /\ Finish("encode", "", encode_twos_complement(v))
    /\ UNCHANGED <<a, b, locals, calls>>

\* s.replace("_", "")
RECURSIVE RemoveUnderscores(_)
RemoveUnderscores(s) ==
    IF s = <<>> THEN <<>>
    ELSE IF Len(s) = 1 THEN (IF s[1] = "_" THEN <<>> ELSE s)
    ELSE LET h == Len(s) \div 2
         IN  RemoveUnderscores(SubSeq(s, 1, h))
             \o RemoveUnderscores(SubSeq(s, h + 1, Len(s)))

\* The characters that str.strip() removes, those of str.isspace(): the
\* blank, tab, line feed, carriage return, form feed, vertical tab, the
\* separators U+001C..U+001F, next line U+0085, the no-break space U+00A0
\* and the Ogham space mark U+1680.  (The rest of str.isspace(), U+2000 to
\* U+200A, U+2028, U+2029, U+202F, U+205F and U+3000, is not accepted in a
\* string of a module, so no string of the model can hold any of it.)
Whitespace ==
    {" ", "\t", "\n", "\r", "\f", "", "", "", "", "",
     "", " ", " "}

\* str.strip(): leading and trailing white space removed.
Strip(s) ==
    LET kept == {k \in 1..Len(s) : s[k] \notin Whitespace}
    IN  IF kept = {} THEN <<>>
        ELSE SubSeq(s, CHOOSE k \in kept : \A j \in kept : k <= j,
                       CHOOSE k \in kept : \A j \in kept : k >= j)

Cleaned(s) == Strip(RemoveUnderscores(s))

\* _validate_bit_string_32: the error it raises, "" if none.
validate_bit_string_32(s) ==
    IF Len(Cleaned(s)) # W32 \/ \E k \in 1..Len(Cleaned(s)) :
                                     Cleaned(s)[k] \notin {"0", "1"}
    THEN "binary string must be 32 characters of '0'/'1'"
    ELSE ""

\* decode_twos_complement, integer branch: the error it raises, "" if none.
decode_int_check(bits_in) ==
    IF BelowZero(bits_in) \/ AboveU32(bits_in)
    THEN "integer input must be in 0..0xFFFFFFFF"
    ELSE ""

\* bits = [1 if cleaned[31 - i] == "1" else 0 for i in range(32)]
BitsOfCleaned(cleaned) ==
    ListOf([i \in 1..W32 |-> IF cleaned[W32 + 1 - i] = "1" THEN 1 ELSE 0])

decode_value_Unsigned(u) ==
    [value |-> [neg |-> FALSE, mag |-> u \o <<0>>]]

\* value = u if (u & (1 << 31)) == 0 else (u - (1 << 32))
decode_value(u) ==
    IF u[4] < 128
    THEN [value |-> [neg |-> FALSE, mag |-> u \o <<0>>]]
    ELSE [value |-> [neg |-> TRUE,
                     mag |-> SubSeq(NatSub(<<0, 0, 0, 0>>, u), 1, 4) \o <<0>>]]

\* decode_twos_complement(bits_in) for a string
decode_str(bits_in) == decode_value(bits_to_u32(BitsOfCleaned(Cleaned(bits_in))))

\* decode_twos_complement(bits_in) for an int
decode_int(bits_in) == decode_value(SubSeq(bits_in.mag, 1, 4))

\* The strings offered for a pattern: grouped, plain, grouped between
\* blanks, and plain after a tab, before a line feed, between other
\* white space, and after an Ogham space mark.
BinStrings(bits) ==
    {pretty_bin32(bits), MsbFirstChars(bits),
     <<" ">> \o pretty_bin32(bits) \o <<" ">>,
     <<"\t">> \o MsbFirstChars(bits),
     MsbFirstChars(bits) \o <<"\n">>,
     <<"\r", "\n">> \o MsbFirstChars(bits) \o <<"", "\f">>,
     <<" ", "\t", " ">> \o MsbFirstChars(bits) \o <<" ", "", "">>,
     <<" ">> \o MsbFirstChars(bits)}

\* Strings that are not 32 characters of "0" and "1": one character short,
\* with another character, and with a tab inside.
MalformedStrings(bits) ==
    {Tail(MsbFirstChars(bits)), <<"2">> \o Tail(MsbFirstChars(bits)),
     <<MsbFirstChars(bits)[1], "\t">> \o Tail(MsbFirstChars(bits))}

\* decode_twos_complement(s)
DecodeStr ==
    /\ pc = "ready"
    /\ b = NoOperand
    /\ validate_bits_32(a) = ""
    /\ \E str \in BinStrings(a) \cup MalformedStrings(a) :
          /\ arg' = [bits_in |-> str, type |-> "str"]
          /\ Finish("decode", validate_bit_string_32(str), decode_str(str))
    /\ UNCHANGED <<a, b, locals, calls>>

\* decode_twos_complement(u)
DecodeInt ==
    /\ pc = "ready"
    /\ b = NoOperand
    /\ \E v \in IntInputs :
          /\ arg' = [bits_in |-> v, type |-> "int"]
          /\ Finish("decode", decode_int_check(v), decode_int(v))
    /\ UNCHANGED <<a, b, locals, calls>>

\* sign_extend / zero_extend: the error raised, "" if none.
extend_check(bits, from_width, to_width) ==
    IF \E k \in 1..Len(bits) : bits[k] \notin {0, 1}
    THEN "bits must be a list of 0/1"
    ELSE IF ~(1 <= from_width /\ from_width <= Len(bits))
    THEN "from_width must be in 1..len(bits)"
    ELSE IF to_width < from_width
    THEN "to_width must be >= from_width"
    ELSE ""

sign_extend_TopBit(bits, from_width, to_width) ==
    LET sign == bits[Len(bits)]
        out  == SubSeq(bits, 1, from_width)
                \o [k \in 1..(to_width - from_width) |-> sign]
    IN  SubSeq(out, 1, to_width)

\* sign_extend
sign_extend(bits, from_width, to_width) ==
    LET sign == bits[from_width]
        out  == SubSeq(bits, 1, from_width)
                \o [k \in 1..(to_width - from_width) |-> sign]
    IN  SubSeq(out, 1, to_width)

\* zero_extend
zero_extend(bits, from_width, to_width) ==
    LET out == SubSeq(bits, 1, from_width)
               \o [k \in 1..(to_width - from_width) |-> 0]
    IN  SubSeq(out, 1, to_width)

\* The widths offered to the extensions, valid and invalid.
FromWidths == {0, 1, 2, 8, 16, 31, 32, 33}
ToWidths == {0, 1, 8, 12, 16, 32, 33, 64}

\* The bit lists offered to the extensions: a word and its low byte.
ExtendInputs == {a} \cup (IF Len(a) >= 8 THEN {SubSeq(a, 1, 8)} ELSE {})

\* sign_extend(bits, from_width, to_width)
SignExtend ==
    /\ pc = "ready"
    /\ b = NoOperand
    /\ \E bits \in ExtendInputs, fw \in FromWidths, tw \in ToWidths :
          /\ arg' = [bits |-> bits, from_width |-> fw, to_width |-> tw]
          /\ Finish("sign_extend", extend_check(bits, fw, tw),
                    sign_extend(bits, fw, tw))
    /\ UNCHANGED <<a, b, locals, calls>>

\* zero_extend(bits, from_width, to_width)
ZeroExtend ==
    /\ pc = "ready"
    /\ b = NoOperand
    /\ \E bits \in ExtendInputs, fw \in FromWidths, tw \in ToWidths :
          /\ arg' = [bits |-> bits, from_width |-> fw, to_width |-> tw]
          /\ Finish("zero_extend", extend_check(bits, fw, tw),
                    zero_extend(bits, fw, tw))
    /\ UNCHANGED <<a, b, locals, calls>>


(***************************************************************************)
(* fpu_f32.py                                                              *)
(*                                                                         *)
(* A Python float is a record [cls, s, sig, exp]: cls is "nan", "inf",     *)
(* "zero" or "finite", s is the sign bit, and a finite value is            *)
(* sig * 2^exp, with sig a bit list (LSB first) whose first and last       *)
(* elements are 1.  A NaN keeps its 23 fraction bits in sig.               *)
(***************************************************************************)
FRAC_BITS == 23
SIG_BITS == FRAC_BITS + 1
BIAS == 127

\* The number a short bit list (LSB first) spells.
RECURSIVE BitsValue(_)
BitsValue(bits) ==
    IF bits = <<>> THEN 0 ELSE bits[1] + 2 * BitsValue(Tail(bits))

\* [(n >> i) & 1 for i in range(w)]
BitsOfNat(n, w) == ListOf([k \in 1..w |-> (n \div Pow2(k - 1)) % 2])

\* The finite, non-zero float sig * 2^exp, sig stripped of the zeros at
\* both ends.
MakeFinite(s, sig, exp) ==
    LET ones == {k \in 1..Len(sig) : sig[k] = 1}
        lo   == CHOOSE k \in ones : \A j \in ones : k <= j
        hi   == CHOOSE k \in ones : \A j \in ones : k >= j
    IN  [cls |-> "finite", s |-> s, sig |-> SubSeq(sig, lo, hi),
         exp |-> exp + lo - 1]

classify_from_fields_ExponentOnly(sign, exp, frac) ==
    IF exp = 255 THEN "inf" ELSE IF exp = 0 THEN "zero" ELSE "normal"

\* _classify_from_fields
classify_from_fields(sign, exp, frac) ==
    IF exp = 255 THEN (IF frac = 0 THEN "inf" ELSE "nan")
    ELSE IF exp = 0 THEN (IF frac = 0 THEN "zero" ELSE "subnormal")
    ELSE "normal"

\* s = (u >> 31) & 1, e = (u >> 23) & 0xFF, f = u & 0x7FFFFF
FieldsOfU32(u) ==
    [s |-> u[4] \div 128,
     e |-> (u[4] % 128) * 2 + u[3] \div 128,
     f |-> (u[3] % 128) * 65536 + u[2] * 256 + u[1]]

\* struct.unpack("!f", b)[0]: the float a binary32 pattern stands for (the
\* conversion to a double sets the quiet bit of a NaN).
FloatOfFields(s, e, f) ==
    IF e = 255
    THEN (IF f = 0 THEN [cls |-> "inf", s |-> s, sig |-> <<>>, exp |-> 0]
          ELSE [cls |-> "nan", s |-> s,
                sig |-> [BitsOfNat(f, FRAC_BITS) EXCEPT ![FRAC_BITS] = 1],
                exp |-> 0])
    ELSE IF e = 0
    THEN (IF f = 0 THEN [cls |-> "zero", s |-> s, sig |-> <<>>, exp |-> 0]
          ELSE MakeFinite(s, BitsOfNat(f, FRAC_BITS), 1 - BIAS - FRAC_BITS))
    ELSE MakeFinite(s, BitsOfNat(Pow2(FRAC_BITS) + f, SIG_BITS),
                    e - BIAS - FRAC_BITS)

\* unpack_f32
unpack_f32(bits) ==
    LET u   == bits_to_u32(bits)
        fld == FieldsOfU32(u)
    IN  [value |-> FloatOfFields(fld.s, fld.e, fld.f),
         class |-> classify_from_fields(fld.s, fld.e, fld.f)]

\* int(m * (1 << scale)) for the float m = sig / 2^(Len(sig)-1) in [1, 2):
\* the bit list of sig * 2^(scale - Len(sig) + 1), fraction dropped.
ScaledInt(sig, scale) ==
    LET k == scale - Len(sig) + 1
    IN  IF k >= 0 THEN Zeros(k) \o sig ELSE SubSeq(sig, 1 - k, Len(sig))

\* (full >> n) & 1
BitAt(full, n) == IF n + 1 <= Len(full) THEN full[n + 1] ELSE 0

\* (full >> n) & ((1 << w) - 1)
FieldAt(full, n, w) ==
    BitsValue([k \in 1..w |-> BitAt(full, n + k - 1)])

\* incr = 1 if (g and (r or s_sticky or (frac_before & 1))) else 0
RoundIncrement(g, r, s_sticky, frac_before) ==
    IF g = 1 /\ (r = 1 \/ s_sticky = 1 \/ frac_before % 2 = 1) THEN 1 ELSE 0

\* pack_f32, the subnormal branch (E <= 0): the fields e and f.
PackSubnormal(sig, E) ==
    LET shift        == 1 - E
        scale        == FRAC_BITS + 3 + shift
        full         == ScaledInt(sig, scale)
        frac_before  == FieldAt(full, 3 + shift, FRAC_BITS)
        g            == BitAt(full, 2 + shift)
        r            == BitAt(full, 1 + shift)
        s_sticky     == IF \E k \in 1..(1 + shift) : BitAt(full, k - 1) # 0
                        THEN 1 ELSE 0
        frac_rounded == frac_before + RoundIncrement(g, r, s_sticky, frac_before)
    IN  IF frac_rounded >= Pow2(FRAC_BITS) THEN [e |-> 1, f |-> 0]
        ELSE [e |-> 0, f |-> frac_rounded]

\* pack_f32, the normal branch (E > 0): the fields e and f.
PackNormal(sig, E0) ==
    LET sig26        == BitsValue(ScaledInt(sig, FRAC_BITS + 3))
        main         == sig26 \div 8
        implicit1    == Pow2(FRAC_BITS)
        frac_before  == main % implicit1
        g            == (sig26 \div 4) % 2
        r            == (sig26 \div 2) % 2
        s_sticky     == sig26 % 2
        main_plus    == main + RoundIncrement(g, r, s_sticky, frac_before)
        carried      == main_plus >= Pow2(FRAC_BITS + 1)
        main_rounded == IF carried THEN main_plus \div 2 ELSE main_plus
        E            == IF carried THEN E0 + 1 ELSE E0
        f            == main_rounded % Pow2(FRAC_BITS)
        e            == IF 0 < E /\ E < 255 THEN E
                        ELSE IF E >= 255 THEN 255 ELSE 0
    IN  [e |-> e, f |-> IF e = 255 /\ f # 0 THEN 0 ELSE f]

\* pack_f32: the fields s, e and f of a float.
PackFields(value) ==
    CASE value.cls = "nan"  -> [s |-> 0, e |-> 255, f |-> 1]
      [] value.cls = "inf"  -> [s |-> value.s, e |-> 255, f |-> 0]
      [] value.cls = "zero" -> [s |-> value.s, e |-> 0, f |-> 0]
      [] OTHER ->
           LET e2 == value.exp + Len(value.sig) - 1
               E  == e2 + BIAS
               ef == IF E <= 0 THEN PackSubnormal(value.sig, E)
                               ELSE PackNormal(value.sig, E)
           IN  [s |-> value.s, e |-> ef.e, f |-> ef.f]

\* u = ((s & 1) << 31) | ((e & 0xFF) << 23) | (f & 0x7FFFFF)
U32OfFields(s, e, f) ==
    <<f % 256, (f \div 256) % 256, (e % 2) * 128 + f \div 65536,
      s * 128 + e \div 2>>

\* pack_f32
pack_f32(value) ==
    LET fld == PackFields(value)
    IN  [bits |-> u32_to_bits(U32OfFields(fld.s, fld.e, fld.f)),
         fields |-> [s |-> fld.s, exp |-> BitsOfNat(fld.e, 8),
                     frac |-> BitsOfNat(fld.f, FRAC_BITS)]]

(***************************************************************************)
(* The host's float arithmetic (a + b, a - b, a * b on doubles holding     *)
(* binary32 values) and struct.pack("!f", res).  NaN results follow the    *)
(* x86-64 rules of the interpreter's build: a NaN operand is returned, and *)
(* an invalid operation gives the negative quiet NaN.  When both operands  *)
(* are NaNs, a - b returns the first; a + b and a * b return the first or  *)
(* the second, depending on the order in which the interpreter hands the   *)
(* operands to the instruction (it differs between the generic and the     *)
(* specialised form of the bytecode, so between the early and the later    *)
(* executions in a process, and under a trace function).  The source does  *)
(* not fix which: the operators below take it as the argument nan.         *)
(***************************************************************************)
\* Of two NaN operands, the one whose NaN a + b or a * b returns.
NaNOperands == {1, 2}

\* The bit list of n digits (LSB first).
BitsOfDigits(d) ==
    ListOf([k \in 1..(8 * Len(d)) |->
               (d[(k - 1) \div 8 + 1] \div Pow2((k - 1) % 8)) % 2])

\* The n base-256 digits of a bit list of at most 8 * n bits.
DigitsOfBits(bits, n) == Digits(bits \o Zeros(8 * n - Len(bits)))

FloatZero(s) == [cls |-> "zero", s |-> s, sig |-> <<>>, exp |-> 0]

FloatInf(s) == [cls |-> "inf", s |-> s, sig |-> <<>>, exp |-> 0]

DefaultNaN ==
    [cls |-> "nan", s |-> 1,
     sig |-> [Zeros(FRAC_BITS) EXCEPT ![FRAC_BITS] = 1], exp |-> 0]

\* bits + 1, as a bit list one longer when every bit is 1.
Increment(bits) ==
    LET zeros == {k \in 1..Len(bits) : bits[k] = 0}
    IN  IF zeros = {} THEN Zeros(Len(bits)) \o <<1>>
        ELSE LET z == CHOOSE k \in zeros : \A j \in zeros : k <= j
             IN  ListOf([k \in 1..Len(bits) |->
                            IF k < z THEN 0 ELSE IF k = z THEN 1 ELSE bits[k]])

\* A finite value rounded to nearest, ties to even, to p significant bits
\* and to a multiple of 2^qmin.
RoundNearestEven(value, p, qmin) ==
    LET L  == Len(value.sig)
        q0 == value.exp + L - p
        q  == IF q0 > qmin THEN q0 ELSE qmin
        d  == q - value.exp
    IN  IF d <= 0 THEN value
        ELSE LET kept   == IF d >= L THEN <<0>> ELSE SubSeq(value.sig, d + 1, L)
                 guard  == BitAt(value.sig, d - 1)
                 sticky == \E k \in 1..(d - 1) : BitAt(value.sig, k - 1) = 1
                 up     == guard = 1 /\ (sticky \/ kept[1] = 1)
                 r      == IF up THEN Increment(kept) ELSE kept
             IN  IF \A k \in 1..Len(r) : r[k] = 0 THEN FloatZero(value.s)
                 ELSE MakeFinite(value.s, r, q)

\* The double nearest to an exact result.
HostDouble(value) ==
    IF value.cls = "finite" THEN RoundNearestEven(value, 53, -1074) ELSE value

\* The exact sum of two finite, non-zero floats.
FiniteSum(x, y) ==
    LET e  == IF x.exp < y.exp THEN x.exp ELSE y.exp
        X  == Zeros(x.exp - e) \o x.sig
        Y  == Zeros(y.exp - e) \o y.sig
        n  == (IF Len(X) > Len(Y) THEN Len(X) ELSE Len(Y)) \div 8 + 2
        Xd == DigitsOfBits(X, n)
        Yd == DigitsOfBits(Y, n)
    IN  IF x.s = y.s
        THEN MakeFinite(x.s, BitsOfDigits(SubSeq(NatAdd(Xd, Yd, 0), 1, n)), e)
        ELSE IF Xd = Yd THEN FloatZero(0)
        ELSE IF NatLess(Yd, Xd)
        THEN MakeFinite(x.s, BitsOfDigits(SubSeq(NatSub(Xd, Yd), 1, n)), e)
        ELSE MakeFinite(y.s, BitsOfDigits(SubSeq(NatSub(Yd, Xd), 1, n)), e)

\* a + b
FloatAdd(x, y, nan) ==
    CASE x.cls = "nan" /\ y.cls = "nan" -> IF nan = 1 THEN x ELSE y
      [] x.cls = "nan" /\ y.cls # "nan" -> x
      [] x.cls # "nan" /\ y.cls = "nan" -> y
      [] x.cls = "inf" /\ y.cls # "nan" ->
           IF y.cls = "inf" /\ y.s # x.s THEN DefaultNaN ELSE x
      [] x.cls \in {"zero", "finite"} /\ y.cls = "inf" -> y
      [] x.cls = "zero" /\ y.cls = "zero" ->
           FloatZero(IF x.s = 1 /\ y.s = 1 THEN 1 ELSE 0)
      [] x.cls = "zero" /\ y.cls = "finite" -> y
      [] x.cls = "finite" /\ y.cls = "zero" -> x
      [] x.cls = "finite" /\ y.cls = "finite" -> HostDouble(FiniteSum(x, y))

\* -b, for a b that is not a NaN
FloatNeg(y) == [y EXCEPT !.s = 1 - y.s]

\* a - b
FloatSub(x, y) ==
    IF x.cls = "nan" THEN x
    ELSE IF y.cls = "nan" THEN y
    ELSE FloatAdd(x, FloatNeg(y), 1)

\* The exact product of two finite, non-zero floats.
FiniteProduct(x, y) ==
    LET nx == (Len(x.sig) + 7) \div 8
        ny == (Len(y.sig) + 7) \div 8
    IN  MakeFinite(Xor(x.s, y.s),
                   BitsOfDigits(NatMul(DigitsOfBits(x.sig, nx),
                                       DigitsOfBits(y.sig, ny))),
                   x.exp + y.exp)

\* a * b
FloatMul(x, y, nan) ==
    CASE x.cls = "nan" /\ y.cls = "nan" -> IF nan = 1 THEN x ELSE y
      [] x.cls = "nan" /\ y.cls # "nan" -> x
      [] x.cls # "nan" /\ y.cls = "nan" -> y
      [] x.cls = "inf" /\ y.cls \notin {"nan"} ->
           IF y.cls = "zero" THEN DefaultNaN ELSE FloatInf(Xor(x.s, y.s))
      [] x.cls \in {"zero", "finite"} /\ y.cls = "inf" ->
           IF x.cls = "zero" THEN DefaultNaN ELSE FloatInf(Xor(x.s, y.s))
      [] x.cls = "zero" /\ y.cls \in {"zero", "finite"} ->
           FloatZero(Xor(x.s, y.s))
      [] x.cls = "finite" /\ y.cls = "zero" -> FloatZero(Xor(x.s, y.s))
      [] x.cls = "finite" /\ y.cls = "finite" ->
           HostDouble(FiniteProduct(x, y))

\* The float nearest to a double (the conversion inside struct.pack).
NearestF32(res) ==
    IF res.cls = "finite"
    THEN RoundNearestEven(res, SIG_BITS, 1 - BIAS - FRAC_BITS)
    ELSE res

\* struct.pack("!f", res): the error it raises, "" if none.
struct_pack_check(res) ==
    LET r == NearestF32(res)
    IN  IF r.cls = "finite" /\ r.exp + Len(r.sig) - 1 > BIAS
        THEN "float too large to pack with f format"
        ELSE ""

\* int.from_bytes(struct.pack("!f", res), "big"): the pattern of a float.
struct_pack(res) ==
    LET r == NearestF32(res)
    IN  CASE r.cls = "nan"  -> U32OfFields(r.s, 255, BitsValue(r.sig))
          [] r.cls = "inf"  -> U32OfFields(r.s, 255, 0)
          [] r.cls = "zero" -> U32OfFields(r.s, 0, 0)
          [] OTHER ->
               LET E == r.exp + Len(r.sig) - 1 + BIAS
               IN  IF E >= 1
                   THEN U32OfFields(r.s, E,
                            BitsValue(SubSeq(Zeros(SIG_BITS - Len(r.sig))
                                             \o r.sig, 1, FRAC_BITS)))
                   ELSE U32OfFields(r.s, 0,
                            BitsValue(Zeros(r.exp + BIAS + FRAC_BITS - 1)
                                      \o r.sig))

\* math.isfinite
IsFinite(x) == x.cls \in {"zero", "finite"}

\* _flags_from_result
flags_from_result(x, y, res) ==
    [overflow |-> IF IsFinite(x) /\ IsFinite(y) /\ res.cls = "inf"
                  THEN 1 ELSE 0,
     underflow |-> IF /\ res.cls = "zero" /\ IsFinite(x) /\ IsFinite(y)
                      /\ (x.cls # "zero" \/ y.cls # "zero")
                   THEN 1 ELSE 0,
     invalid |-> IF x.cls = "nan" \/ y.cls = "nan" \/ res.cls = "nan"
                 THEN 1 ELSE 0]

\* The float of an operand: struct.unpack("!f", ua.to_bytes(4, "big"))[0]
FloatOfBits(bits) ==
    LET fld == FieldsOfU32(bits_to_u32(bits))
    IN  FloatOfFields(fld.s, fld.e, fld.f)

\* The host operation of fadd_f32, fsub_f32 and fmul_f32.
HostResult(name, x, y, nan) ==
    CASE name = "add" -> FloatAdd(x, y, nan)
      [] name = "sub" -> FloatSub(x, y)
      [] name = "mul" -> FloatMul(x, y, nan)

\* fadd_f32, fsub_f32, fmul_f32: the error raised, "" if none.
float_op_check(name, a_bits, b_bits, nan) ==
    IF validate_bits_32(a_bits) # "" THEN validate_bits_32(a_bits)
    ELSE IF validate_bits_32(b_bits) # "" THEN validate_bits_32(b_bits)
    ELSE struct_pack_check(HostResult(name, FloatOfBits(a_bits),
                                      FloatOfBits(b_bits), nan))

\* fadd_f32, fsub_f32, fmul_f32 (name is the "op" of the trace entry).
float_op(name, a_bits, b_bits, nan) ==
    LET ua       == bits_to_u32(a_bits)
        ub       == bits_to_u32(b_bits)
        x        == FloatOfBits(a_bits)
        y        == FloatOfBits(b_bits)
        res      == HostResult(name, x, y, nan)
        res_bits == u32_to_bits(struct_pack(res))
    IN  [res_bits |-> res_bits,
         flags |-> flags_from_result(x, y, res),
         trace |-> <<[op |-> name, a_u32 |-> ua, b_u32 |-> ub,
                      res_u32 |-> bits_to_u32(res_bits)]>>]

fadd_f32(a_bits, b_bits, nan) == float_op("add", a_bits, b_bits, nan)

fsub_f32(a_bits, b_bits) == float_op("sub", a_bits, b_bits, 1)

fmul_f32(a_bits, b_bits, nan) == float_op("mul", a_bits, b_bits, nan)

\* The binary32 patterns offered to the float operations: zeros,
\* subnormals, normals (1.0, 1.5, 2.25, 10.0, 1e38, 0.01, ...), the largest
\* finite values, infinities and NaNs.
FloatPatterns ==
    { <<0, 0, 0, 0>>, <<0, 0, 0, 128>>,            \* +0, -0
      <<1, 0, 0, 0>>, <<3, 0, 0, 0>>,              \* smallest subnormals
      <<1, 0, 0, 128>>,                            \* -smallest subnormal
      <<0, 0, 64, 0>>, <<255, 255, 127, 0>>,       \* 0x00400000, 0x007FFFFF
      <<238, 227, 108, 0>>,                        \* 0x006CE3EE
      <<221, 199, 89, 0>>,                         \* pack_f32(1e-38)["bits"]
      <<0, 0, 128, 0>>,                            \* smallest normal
      <<0, 0, 128, 51>>,                           \* 2^-24
      <<10, 215, 35, 60>>,                         \* 0.01
      <<0, 0, 128, 63>>, <<0, 0, 128, 191>>,       \* 1.0, -1.0
      <<1, 0, 128, 63>>,                           \* 1.0 + 2^-23
      <<0, 0, 192, 63>>, <<0, 0, 16, 64>>,         \* 1.5, 2.25
      <<0, 0, 32, 65>>,                            \* 10.0
      <<153, 118, 150, 126>>,                      \* 1e38
      <<255, 255, 127, 127>>, <<255, 255, 127, 255>>,  \* +max, -max
      <<0, 0, 128, 127>>, <<0, 0, 128, 255>>,      \* +inf, -inf
      <<1, 0, 192, 127>>, <<1, 0, 128, 127>>,      \* quiet NaN, signalling NaN
      <<69, 35, 193, 255>>, <<255, 255, 255, 127>> } \* 0xFFC12345, 0x7FFFFFFF

FloatOperands == {u32_to_bits(u) : u \in FloatPatterns}


\* unpack_f32(a)
Unpack ==
    /\ pc = "ready"
    /\ b = NoOperand
    /\ arg' = [trace |-> FALSE]
    /\ Finish("unpack", validate_bits_32(a), unpack_f32(a))
    /\ UNCHANGED <<a, b, locals, calls>>

\* pack_f32(unpack_f32(a)["value"])
Pack ==
    /\ pc = "ready"
    /\ b = NoOperand
    /\ validate_bits_32(a) = ""
    /\ arg' = [value |-> unpack_f32(a).value]
    /\ Finish("pack", "", pack_f32(unpack_f32(a).value))
    /\ UNCHANGED <<a, b, locals, calls>>

\* The number of binary places a pack_f32 argument may carry below the last
\* place of a binary32 value.
ExtraBits == 5

\* The doubles offered to pack_f32 around the binary32 value x: x with
\* ExtraBits more places below its last binary32 place (2^-149 for a
\* subnormal), scaled by a power of two.
PackInputs(x) ==
    IF x.cls # "finite" THEN {x}
    ELSE LET top  == x.exp + Len(x.sig)
             ulp  == IF top - SIG_BITS > 1 - BIAS - FRAC_BITS
                     THEN top - SIG_BITS ELSE 1 - BIAS - FRAC_BITS
             kept == Zeros(x.exp - ulp) \o x.sig
         IN  {MakeFinite(x.s, BitsOfNat(extra, ExtraBits) \o kept,
                         ulp - ExtraBits + up) :
                  extra \in 0..(Pow2(ExtraBits) - 1), up \in {0, 2}}

\* pack_f32(value) for a float value next to unpack_f32(a)["value"]
PackValue ==
    /\ pc = "ready"
    /\ b = NoOperand
    /\ validate_bits_32(a) = ""
    /\ \E value \in PackInputs(unpack_f32(a).value) :
           /\ arg' = [value |-> value]
           /\ Finish("pack", "", pack_f32(value))
    /\ UNCHANGED <<a, b, locals, calls>>

\* fadd_f32(a, b)
Fadd ==
    /\ pc = "ready"
    /\ b # NoOperand
    /\ arg' = [trace |-> TRUE]
    /\ \E nan \in NaNOperands :
           Finish("fadd", float_op_check("add", a, b, nan),
                  fadd_f32(a, b, nan))
    /\ UNCHANGED <<a, b, locals, calls>>

\* fsub_f32(a, b)
Fsub ==
    /\ pc = "ready"
    /\ b # NoOperand
    /\ arg' = [trace |-> TRUE]
    /\ Finish("fsub", float_op_check("sub", a, b, 1), fsub_f32(a, b))
    /\ UNCHANGED <<a, b, locals, calls>>

\* fmul_f32(a, b)
Fmul ==
    /\ pc = "ready"
    /\ b # NoOperand
    /\ arg' = [trace |-> TRUE]
    /\ \E nan \in NaNOperands :
           Finish("fmul", float_op_check("mul", a, b, nan),
                  fmul_f32(a, b, nan))
    /\ UNCHANGED <<a, b, locals, calls>>

(***************************************************************************)
(* The loops of mul_shift_add and div_restoring, one iteration at a time.  *)
(* A call enters its loop (pc = "mul_loop", "div_loop") with its local     *)
(* variables in locals, runs the 32 iterations and returns.                *)
(***************************************************************************)
\* mul_shift_add up to its loop: the checks, a64, b32, acc.
MulEnter ==
    /\ pc = "ready"
    /\ b # NoOperand
    /\ \E t \in BOOLEAN : arg' = [trace |-> t]
    /\ op' = "mul"
    /\ IF mdu_check(a, b) # ""
       THEN pc' = "raised" /\ ret' = mdu_check(a, b) /\ locals' = locals
       ELSE /\ pc' = "mul_loop"
            /\ locals' = [a64 |-> sign_extend_to_64(a), b32 |-> b,
                          st |-> [i |-> 0, acc |-> Zeros(W64), rows |-> <<>>]]
            /\ ret' = ret
    /\ UNCHANGED <<a, b, calls>>

\* One iteration of for i in range(32).
MulIterate ==
    /\ pc = "mul_loop"
    /\ locals.st.i < W32
    /\ locals' = [locals EXCEPT
                     !.st = MulStep(locals.a64, locals.b32, locals.st,
                                    arg.trace)]
    /\ UNCHANGED <<pc, op, a, b, arg, ret, calls>>

\* mul_shift_add after its loop: rd_bits, the overflow check, the return.
MulReturn ==
    /\ pc = "mul_loop"
    /\ locals.st.i = W32
    /\ pc' = "done"
    /\ ret' = [rd_bits |-> SubSeq(locals.st.acc, 1, W32),
               overflow |-> MulOverflow(locals.st.acc),
               trace |-> IF arg.trace THEN locals.st.rows ELSE <<>>]
    /\ UNCHANGED <<op, a, b, arg, locals, calls>>

\* div_restoring up to its loop: the checks, the start record, the two
\* returns without iterations, the magnitudes and the registers.
DivEnter ==
    /\ pc = "ready"
    /\ b # NoOperand
    /\ op' = "div"
    /\ \E sg \in BOOLEAN, t \in BOOLEAN :
          /\ arg' = [trace |-> t, signed |-> sg]
          /\ LET start == DivStart(a, b, sg, t)
                 m     == DivMagnitudes(a, b, sg)
             IN  IF mdu_check(a, b) # ""
                 THEN /\ pc' = "raised" /\ ret' = mdu_check(a, b)
                      /\ locals' = locals
                 ELSE IF is_zero(b)
                 THEN /\ pc' = "done" /\ ret' = DivByZeroResult(a, start, t)
                      /\ locals' = locals
                 ELSE IF IsIntMinByMinus1(a, b, sg)
                 THEN /\ pc' = "done" /\ ret' = DivOverflowResult(start, t)
                      /\ locals' = locals
                 ELSE /\ pc' = "div_loop"
                      /\ locals' = [dvd_abs |-> m.dvd_abs,
                                    dvs_abs |-> m.dvs_abs,
                                    q_sign |-> m.q_sign,
                                    D33 |-> m.dvs_abs \o <<0>>,
                                    st |-> [step |-> 0, R |-> Zeros(W33),
                                            Q |-> m.dvd_abs, rows |-> start]]
                      /\ ret' = ret
    /\ UNCHANGED <<a, b, calls>>

\* One iteration of for step in range(32).
DivIterate ==
    /\ pc = "div_loop"
    /\ locals.st.step < W32
    /\ locals' = [locals EXCEPT
                     !.st = DivStep(locals.D33, locals.st, arg.trace)]
    /\ UNCHANGED <<pc, op, a, b, arg, ret, calls>>

\* div_restoring after its loop: the signs, the finish record, the return.
DivReturn ==
    /\ pc = "div_loop"
    /\ locals.st.step = W32
    /\ pc' = "done"
    /\ LET st     == locals.st
           q_bits == clip32(FixQuotient(st.Q, arg.signed, locals.q_sign))
           r_bits == clip32(FixRemainder(SubSeq(st.R, 1, W32), arg.signed,
                                         a, locals.q_sign))
           flags  == [div_by_zero |-> 0, overflow |-> 0]
       IN  ret' = [q_bits |-> q_bits, r_bits |-> r_bits, flags |-> flags,
                   trace |-> IF arg.trace
                             THEN Append(st.rows,
                                         [phase |-> "finish",
                                          q_hex |-> Hex08(bits_to_u32(q_bits)),
                                          r_hex |-> Hex08(bits_to_u32(r_bits)),
                                          flags |-> flags])
                             ELSE <<>>]
    /\ UNCHANGED <<op, a, b, arg, locals, calls>>

(***************************************************************************)
(* Calls from several threads that are handed the same two lists a and b.  *)
(* A Python list is an object: a thread holds a reference to it. The       *)
(* parameters of a call refer to the caller's lists ("a", "b"); a list a   *)
(* call builds itself ([0] * n, a comprehension, a slice, a concatenation) *)
(* is a new object ("new") that it alone refers to, with its elements      *)
(* kept beside the reference. The elements of a and b are read when the    *)
(* statement that reads them runs. A call is cut into steps at its reads   *)
(* of the shared lists; the threads' steps interleave freely.              *)
(***************************************************************************)
Threads == {1, 2}

\* What the threads are handed: -7 and 3, 123 and a zero divisor,
\* INT_MIN and -1.
ThreadInputs ==
    {<<u32_to_bits(<<249, 255, 255, 255>>), u32_to_bits(<<3, 0, 0, 0>>)>>,
     <<u32_to_bits(<<123, 0, 0, 0>>), u32_to_bits(<<0, 0, 0, 0>>)>>,
     <<u32_to_bits(<<0, 0, 0, 128>>), u32_to_bits(<<255, 255, 255, 255>>)>>}

\* The threads' add and sub calls return the tuple (trace=False).
ThreadAluTraces == {FALSE}

\* The threads' mul and div calls return their trace list (trace=True).
ThreadMduTraces == {TRUE}

ThreadShamts == {0, 9}

\* The parameter that is bound to the caller's list a (or b).
Shared(name) == [ref |-> name, val |-> <<>>]

\* A list that the call builds.
Fresh(v) == [ref |-> "new", val |-> v]

\* The elements of a list, as the statement that reads it finds them.
Elems(o) == IF o.ref = "a" THEN a ELSE IF o.ref = "b" THEN b ELSE o.val

\* bits = bits: another name for the same list.
CopyOf_SameList(o) == o

\* bits[:]: a new list with the elements of bits.
CopyOf(o) == Fresh(Elems(o))

\* o[i] = v: the list itself changes, whoever refers to it.
Store(o, i, v) ==
    [o |-> IF o.ref = "new" THEN Fresh([o.val EXCEPT ![i] = v]) ELSE o,
     a |-> IF o.ref = "a" THEN [a EXCEPT ![i] = v] ELSE a,
     b |-> IF o.ref = "b" THEN [b EXCEPT ![i] = v] ELSE b]

\* A thread moves to frame f; the shared lists become x and y.
ThreadStep(t, f, x, y) ==
    /\ calls' = [calls EXCEPT ![t] = f]
    /\ a' = x
    /\ b' = y
    /\ UNCHANGED <<pc, op, arg, ret, locals>>

\* The frame of a call that raised.
Raised(name, args, e) == [pc |-> "raised", op |-> name, arg |-> args, ret |-> e]

\* add_bits / sub_bits up to the ripple loop: the checks, b_inv for sub,
\* out = [0] * 32 and the start row.
ThreadAluEnter(t) ==
    /\ calls[t].pc = "ready"
    /\ \E name \in {"add", "sub"}, tr \in ThreadAluTraces :
          LET x == Shared("a")
              y == IF name = "sub" THEN Fresh(invert_bits(Elems(Shared("b"))))
                                   ELSE Shared("b")
              e == alu_validate_bits_32(a, b)
              cin0 == IF name = "sub" THEN 1 ELSE 0
          IN  ThreadStep(t,
                 IF e # "" THEN Raised(name, [trace |-> tr], e)
                 ELSE [pc |-> "alu_loop", op |-> name, arg |-> [trace |-> tr],
                       x |-> x, y |-> y, out |-> Fresh(Zeros(W32)),
                       st |-> RippleInit(Elems(x), Elems(y), cin0, tr)],
                 a, b)

\* One iteration of the ripple loop: ai = a[i], bi = b[i], out[i] = s.
ThreadAluIterate(t) ==
    LET f == calls[t]
    IN  /\ f.pc = "alu_loop"
        /\ f.st.i < W32
        /\ LET st == RippleStep(Elems(f.x), Elems(f.y),
                                [f.st EXCEPT !.out = Elems(f.out)], f.arg.trace)
               w  == Store(f.out, st.i, st.out[st.i])
           IN  ThreadStep(t, [f EXCEPT !.st = st, !.out = w.o], w.a, w.b)

\* After the ripple loop: the flags, the finish row, the return.
ThreadAluReturn(t) ==
    LET f == calls[t]
    IN  /\ f.pc = "alu_loop"
        /\ f.st.i = W32
        /\ LET out == Elems(f.out)
               N   == FlagN(out)
               Z   == FlagZ(out)
               C   == f.st.cin
               V   == FlagV(f.st.carry_into_msb, f.st.carry_out_msb)
           IN  ThreadStep(t,
                  [pc |-> "done", op |-> f.op, arg |-> f.arg,
                   ret |-> [sum_bits |-> f.out, N |-> N, Z |-> Z, C |-> C,
                            V |-> V,
                            trace |-> Fresh(IF f.arg.trace
                                THEN Append(f.st.steps,
                                            [phase |-> "finish",
                                             result_hex |->
                                                 Hex08(bits_to_u32(out)),
                                             N |-> N, Z |-> Z, C |-> C,
                                             V |-> V])
                                ELSE <<>>)]],
                  a, b)

\* sll_bits / srl_bits / sra_bits up to the stages: the checks, the sign
\* for sra, out = bits[:].
ThreadShiftEnter(t) ==
    /\ calls[t].pc = "ready"
    /\ \E name \in {"sll", "srl", "sra"}, shamt \in ThreadShamts :
          LET bits == Shared("a")
              e    == shift_check(Elems(bits), shamt)
          IN  ThreadStep(t,
                 IF e # "" THEN Raised(name, [shamt |-> shamt], e)
                 ELSE [pc |-> "shift_loop", op |-> name,
                       arg |-> [shamt |-> shamt],
                       sign |-> IF name = "sra" THEN Elems(bits)[W32] ELSE 0,
                       out |-> CopyOf(bits), idx |-> 0],
                 a, b)

\* One stage of the cascade: out = _shift_..._by_k(out, stage, fill).
ThreadShiftStage(t) ==
    LET f == calls[t]
    IN  /\ f.pc = "shift_loop"
        /\ f.idx < Len(STAGES)
        /\ LET stage == STAGES[f.idx + 1]
               out   == IF ShamtBit(f.arg.shamt, f.idx) = 0 THEN f.out
                        ELSE IF f.op = "sll"
                        THEN Fresh(shift_left_by_k(Elems(f.out), stage, 0))
                        ELSE Fresh(shift_right_by_k(Elems(f.out), stage,
                                                    f.sign))
           IN  ThreadStep(t, [f EXCEPT !.out = out, !.idx = f.idx + 1], a, b)

\* return out
ThreadShiftReturn(t) ==
    LET f == calls[t]
    IN  /\ f.pc = "shift_loop"
        /\ f.idx = Len(STAGES)
        /\ ThreadStep(t, [pc |-> "done", op |-> f.op, arg |-> f.arg,
                          ret |-> f.out], a, b)

\* mul_shift_add up to its loop: the checks, a64 = rs1_bits[:] + [sign] * 32,
\* b32 = rs2_bits[:], acc = [0] * 64.
ThreadMulEnter(t) ==
    /\ calls[t].pc = "ready"
    /\ \E tr \in ThreadMduTraces :
          LET e == mdu_check(a, b)
          IN  ThreadStep(t,
                 IF e # "" THEN Raised("mul", [trace |-> tr], e)
                 ELSE [pc |-> "mul_loop", op |-> "mul", arg |-> [trace |-> tr],
                       a64 |-> Fresh(sign_extend_to_64(Elems(Shared("a")))),
                       b32 |-> CopyOf(Shared("b")),
                       st |-> [i |-> 0, acc |-> Zeros(W64), rows |-> <<>>]],
                 a, b)

\* The loop, on a64, b32 and acc, and the return of rd_bits = acc[:32].
ThreadMulReturn(t) ==
    LET f == calls[t]
    IN  /\ f.pc = "mul_loop"
        /\ LET st == MulLoop(Elems(f.a64), Elems(f.b32), W32, f.st,
                             f.arg.trace)
           IN  ThreadStep(t,
                  [pc |-> "done", op |-> "mul", arg |-> f.arg,
                   ret |-> [rd_bits |-> Fresh(SubSeq(st.acc, 1, W32)),
                            overflow |-> MulOverflow(st.acc),
                            trace |-> Fresh(IF f.arg.trace THEN st.rows
                                                           ELSE <<>>)]],
                  a, b)

\* div_restoring up to its loop: the checks, the start row, the returns
\* for a zero divisor (r_bits = dividend_bits[:]) and for INT_MIN / -1,
\* the magnitudes (new lists), R, Q = dvd_abs[:], D33.
ThreadDivEnter(t) ==
    /\ calls[t].pc = "ready"
    /\ \E sg \in BOOLEAN, tr \in ThreadMduTraces :
          LET dividend_bits == Shared("a")
              divisor_bits  == Shared("b")
              args  == [trace |-> tr, signed |-> sg]
              e     == mdu_check(a, b)
              start == DivStart(Elems(dividend_bits), Elems(divisor_bits),
                                sg, tr)
              zero  == DivByZeroResult(Elems(dividend_bits), start, tr)
              ovf   == DivOverflowResult(start, tr)
              m     == DivMagnitudes(Elems(dividend_bits),
                                     Elems(divisor_bits), sg)
          IN  ThreadStep(t,
                 IF e # "" THEN Raised("div", args, e)
                 ELSE IF is_zero(Elems(divisor_bits))
                 THEN [pc |-> "done", op |-> "div", arg |-> args,
                       ret |-> [q_bits |-> Fresh(zero.q_bits),
                                r_bits |-> CopyOf(dividend_bits),
                                flags |-> zero.flags,
                                trace |-> Fresh(zero.trace)]]
                 ELSE IF IsIntMinByMinus1(Elems(dividend_bits),
                                          Elems(divisor_bits), sg)
                 THEN [pc |-> "done", op |-> "div", arg |-> args,
                       ret |-> [q_bits |-> Fresh(ovf.q_bits),
                                r_bits |-> Fresh(ovf.r_bits),
                                flags |-> ovf.flags,
                                trace |-> Fresh(ovf.trace)]]
                 ELSE [pc |-> "div_loop", op |-> "div", arg |-> args,
                       dividend_bits |-> dividend_bits,
                       q_sign |-> m.q_sign,
                       D33 |-> Fresh(m.dvs_abs \o <<0>>),
                       st |-> [step |-> 0, R |-> Zeros(W33),
                               Q |-> m.dvd_abs,
                               rows |-> start]],
                 a, b)

\* The loop, on R, Q and D33, the signs (dividend_bits[31] is read here),
\* the finish row and the return of the clipped lists.
ThreadDivReturn(t) ==
    LET f == calls[t]
    IN  /\ f.pc = "div_loop"
        /\ LET st     == DivLoop(Elems(f.D33), W32, f.st, f.arg.trace)
               q_bits == clip32(FixQuotient(st.Q, f.arg.signed, f.q_sign))
               r_bits == clip32(FixRemainder(SubSeq(st.R, 1, W32),
                                             f.arg.signed,
                                             Elems(f.dividend_bits), f.q_sign))
               flags  == [div_by_zero |-> 0, overflow |-> 0]
           IN  ThreadStep(t,
                  [pc |-> "done", op |-> "div", arg |-> f.arg,
                   ret |-> [q_bits |-> Fresh(q_bits), r_bits |-> Fresh(r_bits),
                            flags |-> flags,
                            trace |-> Fresh(IF f.arg.trace
                                THEN Append(st.rows,
                                        [phase |-> "finish",
                                         q_hex |-> Hex08(bits_to_u32(q_bits)),
                                         r_hex |-> Hex08(bits_to_u32(r_bits)),
                                         flags |-> flags])
                                ELSE <<>>)]],
                  a, b)


(***************************************************************************)
(* The specifications.                                                     *)
(***************************************************************************)
Init ==
    /\ pc = "ready"
    /\ op = "none"
    /\ a \in Operands
    /\ b \in Operands \cup {NoOperand}
    /\ arg = [trace |-> FALSE]
    /\ ret = <<>>
    /\ locals = NoLocals
    /\ calls = NoCalls

\* The float operations start from the binary32 patterns.
InitFpu ==
    /\ pc = "ready"
    /\ op = "none"
    /\ a \in FloatOperands
    /\ b \in FloatOperands \cup {NoOperand}
    /\ arg = [trace |-> FALSE]
    /\ ret = <<>>
    /\ locals = NoLocals
    /\ calls = NoCalls

\* Lists that are not 32 elements of 0/1: too short, too long, and with an
\* element other than 0 and 1.
BadVectors ==
    { <<0, 1>>, <<0, 1, 0>>, Zeros(W32 - 1), Ones(W33),
      Zeros(W32 - 1) \o <<2>>, <<0 - 1>> \o Ones(W32 - 1),
      Zeros(8) \o <<3>> \o Zeros(W32 - 9) }

\* The empty list is offered as a first operand only.
BadFirstVectors == BadVectors \cup {<<>>}

\* Every call, offered well-formed and malformed lists.
InitValidation ==
    /\ pc = "ready"
    /\ op = "none"
    /\ a \in NamedVectors \cup BadFirstVectors
    /\ b \in NamedVectors \cup BadVectors \cup {NoOperand}
    /\ arg = [trace |-> FALSE]
    /\ ret = <<>>
    /\ locals = NoLocals
    /\ calls = NoCalls

NextAlu == Add \/ Sub

NextShift == Sll \/ Srl \/ Sra

NextMul == Mul

NextDiv == Div

NextBits == U32ToBits \/ BitsToU32 \/ PrettyBin \/ PrettyHex

NextTwos == Encode \/ DecodeStr \/ DecodeInt \/ SignExtend \/ ZeroExtend

NextFpu == Unpack \/ Pack \/ PackValue \/ Fadd \/ Fsub \/ Fmul

\* The calls that take a trace flag.
NextTraceFlag == Add \/ Sub \/ Mul \/ Div

\* The calls that return a trace.
NextTrace == Add \/ Sub \/ Mul \/ Div \/ Fadd \/ Fsub \/ Fmul

\* multiply, iteration by iteration.
NextMulLoop == MulEnter \/ MulIterate \/ MulReturn

\* divideRestoring, iteration by iteration.
NextDivLoop == DivEnter \/ DivIterate \/ DivReturn

\* The steps of the threads, in any order.
NextThreads ==
    \E t \in Threads :
        \/ ThreadAluEnter(t) \/ ThreadAluIterate(t) \/ ThreadAluReturn(t)
        \/ ThreadShiftEnter(t) \/ ThreadShiftStage(t) \/ ThreadShiftReturn(t)
        \/ ThreadMulEnter(t) \/ ThreadMulReturn(t)
        \/ ThreadDivEnter(t) \/ ThreadDivReturn(t)

Next ==
    \/ U32ToBits \/ BitsToU32 \/ PrettyBin \/ PrettyHex
    \/ Encode \/ DecodeStr \/ DecodeInt \/ SignExtend \/ ZeroExtend
    \/ Add \/ Sub
    \/ Sll \/ Srl \/ Sra
    \/ Mul \/ Div
    \/ Unpack \/ Pack \/ PackValue \/ Fadd \/ Fsub \/ Fmul

Spec == Init /\ [][Next]_vars

\* The calls of one component each, from the same operands.
SpecAlu == Init /\ [][NextAlu]_vars

SpecShift == Init /\ [][NextShift]_vars

SpecMul == Init /\ [][NextMul]_vars

SpecDiv == Init /\ [][NextDiv]_vars

SpecBits == Init /\ [][NextBits]_vars

SpecTwos == Init /\ [][NextTwos]_vars

SpecTraceFlag == Init /\ [][NextTraceFlag]_vars

SpecTrace == Init /\ [][NextTrace]_vars

SpecFpu == InitFpu /\ [][NextFpu]_vars

SpecValidation == InitValidation /\ [][Next]_vars

\* Two threads are started on the same two lists.
InitThreads ==
    /\ pc = "ready"
    /\ op = "none"
    /\ \E p \in ThreadInputs : a = p[1] /\ b = p[2]
    /\ arg = [trace |-> FALSE]
    /\ ret = <<>>
    /\ locals = NoLocals
    /\ calls = [t \in Threads |-> [pc |-> "ready"]]

SpecThreads == InitThreads /\ [][NextThreads]_vars

SpecMulLoop == Init /\ [][NextMulLoop]_vars

SpecDivLoop == Init /\ [][NextDivLoop]_vars

(***************************************************************************)
(* C1: add(a, b) returns (a + b) mod 2^32 and C = 1 iff a + b >= 2^32,     *)
(* through a 32-position chain that starts with carry-in 0, where each     *)
(* position's sum bit and carry-out are those of a one-bit full adder and  *)
(* each carry-out is the next position's carry-in.                         *)
(***************************************************************************)
C1_AddIsSumMod2p32 ==
    Called("add") =>
        LET s == NatAdd(Digits(a), Digits(b), 0)
        IN  /\ Digits(ret.sum_bits) = Low(s, 4)
            /\ ret.C = s[5]
            /\ arg.trace =>
                  /\ Len(ret.trace) = W32 + 2
                  /\ ret.trace[2].cin = 0
                  /\ \A i \in 0..(W32 - 1) :
                        LET r == ret.trace[i + 2]
                        IN  /\ r.bit = i
                            /\ r.ai = a[i + 1]
                            /\ r.bi = b[i + 1]
                            /\ r.sum_bit = (r.ai + r.bi + r.cin) % 2
                            /\ r.cout = (r.ai + r.bi + r.cin) \div 2
                            /\ r.sum_bit = ret.sum_bits[i + 1]
                            /\ i < W32 - 1 => ret.trace[i + 3].cin = r.cout
                            /\ i = W32 - 1 => ret.C = r.cout

\* -1 + -1 = 0xFFFFFFFE with a carry out, traced.
C1_Witness ==
    /\ Called("add")
    /\ arg.trace
    /\ Digits(a) = <<255, 255, 255, 255>>
    /\ Digits(b) = <<255, 255, 255, 255>>
    /\ Digits(ret.sum_bits) = <<254, 255, 255, 255>>
    /\ ret.C = 1

(***************************************************************************)
(* C2: the flags of add(a, b): Z = 1 iff the 32 result bits are all 0;     *)
(* N is result bit 31; V = 1 iff a and b have the same bit 31 and the      *)
(* result's bit 31 differs from it, which is when the carry into position  *)
(* 31 differs from the carry out of it.  add(0x7FFFFFFF, 1) = 0x80000000   *)
(* with (N, Z, C, V) = (1, 0, 0, 1).                                       *)
(***************************************************************************)
C2_AddFlags ==
    Called("add") =>
        /\ ret.Z = 1 <=> NatIsZero(Digits(ret.sum_bits))
        /\ ret.Z \in {0, 1}
        /\ ret.N = ret.sum_bits[W32]
        /\ ret.V \in {0, 1}
        /\ ret.V = 1 <=> (a[W32] = b[W32] /\ ret.sum_bits[W32] # a[W32])
        /\ arg.trace =>
              (ret.V = 1 <=> ret.trace[W32 + 1].cin # ret.trace[W32 + 1].cout)
        /\ (Digits(a) = <<255, 255, 255, 127>> /\ Digits(b) = <<1, 0, 0, 0>>) =>
              /\ Digits(ret.sum_bits) = <<0, 0, 0, 128>>
              /\ <<ret.N, ret.Z, ret.C, ret.V>> = <<1, 0, 0, 1>>

C2_Witness ==
    /\ Called("add")
    /\ Digits(a) = <<255, 255, 255, 127>>
    /\ Digits(b) = <<1, 0, 0, 0>>
    /\ ret.V = 1
    /\ ret.C = 0

(***************************************************************************)
(* C3: sub(a, b) returns what the chain yields for a + ~b + 1: the result  *)
(* is (a - b) mod 2^32, C = 1 iff a >= b as unsigned values, N and Z       *)
(* describe the result, and V is the add rule on a and ~b.                 *)
(* sub(0x80000000, 1) = 0x7FFFFFFF with (N, Z, C, V) = (0, 0, 1, 1).       *)
(***************************************************************************)
C3_SubIsAddOfComplement ==
    Called("sub") =>
        LET nb == [d \in 1..4 |-> 255 - Digits(b)[d]]
            s  == NatAdd(Digits(a), nb, 1)
            d  == NatSub(Digits(a), Digits(b))
        IN  /\ Digits(ret.sum_bits) = Low(s, 4)
            /\ ret.C = s[5]
            /\ Digits(ret.sum_bits) = Low(d, 4)
            /\ ret.C = 1 <=> ~NatLess(Digits(a), Digits(b))
            /\ ret.N = ret.sum_bits[W32]
            /\ ret.Z = 1 <=> NatIsZero(Digits(ret.sum_bits))
            /\ ret.V = 1 <=> (a[W32] # b[W32] /\ ret.sum_bits[W32] # a[W32])
            /\ {ret.Z, ret.V, ret.C} \subseteq {0, 1}
            /\ arg.trace =>
                  /\ ret.trace[1].cin = 1
                  /\ ret.trace[1].b_hex = Hex08(nb)
            /\ (Digits(a) = <<0, 0, 0, 128>> /\ Digits(b) = <<1, 0, 0, 0>>) =>
                  /\ Digits(ret.sum_bits) = <<255, 255, 255, 127>>
                  /\ <<ret.N, ret.Z, ret.C, ret.V>> = <<0, 0, 1, 1>>

C3_Witness ==
    /\ Called("sub")
    /\ Digits(a) = <<0, 0, 0, 128>>
    /\ Digits(b) = <<1, 0, 0, 0>>
    /\ Digits(ret.sum_bits) = <<255, 255, 255, 127>>
    /\ ret.V = 1

(***************************************************************************)
(* C4: for a non-zero divisor, signed or unsigned (INT32_MIN / -1          *)
(* included), (divisor * quotient + remainder) mod 2^32 = dividend.        *)
(***************************************************************************)
C4_DivisionLaw ==
    (Called("div") /\ ~NatIsZero(Digits(b))) =>
        LET prod == NatMul(Digits(b), Digits(ret.q_bits))
        IN  Low(NatAdd(Low(prod, 4), Digits(ret.r_bits), 0), 4) = Digits(a)

\* A signed division with a negative quotient and a non-zero remainder.
C4_Witness ==
    /\ Called("div")
    /\ arg.signed
    /\ IsNeg(a) /\ ~IsNeg(b) /\ ~NatIsZero(Digits(b))
    /\ IsNeg(ret.q_bits)
    /\ ~NatIsZero(Digits(ret.r_bits))

(***************************************************************************)
(* C5: for a non-zero divisor, INT32_MIN / -1 (signed) excluded: unsigned  *)
(* division gives quotient = floor(dividend / divisor) and 0 <= remainder  *)
(* < divisor; signed division gives the quotient truncated toward zero and *)
(* a remainder of magnitude < |divisor| that is zero or has the dividend's *)
(* sign.  Signed -7 / 3: q = 0xFFFFFFFE, r = 0xFFFFFFFF; unsigned          *)
(* 0x80000000 / 3: q = 0x2AAAAAAA, r = 2.                                  *)
(***************************************************************************)
C5_QuotientAndRemainder ==
    (/\ Called("div")
     /\ ~NatIsZero(Digits(b))
     /\ ~(arg.signed /\ Digits(a) = TwoTo31 /\ Digits(b) = <<255, 255, 255, 255>>))
    =>
        LET q == ret.q_bits
            r == ret.r_bits
        IN  /\ ~arg.signed =>
                  \* dividend = divisor * q + r exactly, and r < divisor
                  /\ NatAdd(NatMul(Digits(b), Digits(q)), Pad(Digits(r), 8), 0)
                        = Pad(Digits(a), 9)
                  /\ NatLess(Digits(r), Digits(b))
            /\ arg.signed =>
                  \* |dividend| = |divisor| * |q| + |r| exactly, |r| < |divisor|
                  /\ NatAdd(NatMul(Mag(b), Mag(q)), Pad(Mag(r), 8), 0)
                        = Pad(Mag(a), 9)
                  /\ NatLess(Mag(r), Mag(b))
                  /\ ~NatIsZero(Digits(q)) => (IsNeg(q) <=> (IsNeg(a) # IsNeg(b)))
                  /\ ~NatIsZero(Digits(r)) => (IsNeg(r) <=> IsNeg(a))
            /\ (arg.signed /\ Digits(a) = <<249, 255, 255, 255>>
                           /\ Digits(b) = <<3, 0, 0, 0>>) =>
                  /\ Digits(q) = <<254, 255, 255, 255>>
                  /\ Digits(r) = <<255, 255, 255, 255>>
            /\ (~arg.signed /\ Digits(a) = TwoTo31 /\ Digits(b) = <<3, 0, 0, 0>>) =>
                  /\ Digits(q) = <<170, 170, 170, 42>>
                  /\ Digits(r) = <<2, 0, 0, 0>>

\* Signed -7 / 3.
C5_Witness ==
    /\ Called("div")
    /\ arg.signed
    /\ Digits(a) = <<249, 255, 255, 255>>
    /\ Digits(b) = <<3, 0, 0, 0>>
    /\ Digits(ret.q_bits) = <<254, 255, 255, 255>>
    /\ Digits(ret.r_bits) = <<255, 255, 255, 255>>

(***************************************************************************)
(* C6: with an all-zero divisor, in either mode, the quotient is           *)
(* 0xFFFFFFFF, the remainder is the dividend, divByZero = 1, overflow = 0, *)
(* and no iteration runs: a requested trace holds only the start and the   *)
(* finish record.                                                          *)
(***************************************************************************)
C6_DivideByZero ==
    (Called("div") /\ NatIsZero(Digits(b))) =>
        /\ Digits(ret.q_bits) = <<255, 255, 255, 255>>
        /\ ret.r_bits = a
        /\ ret.flags = [div_by_zero |-> 1, overflow |-> 0]
        /\ arg.trace =>
              /\ Len(ret.trace) = 2
              /\ ret.trace[1].phase = "start"
              /\ ret.trace[2].phase = "finish"
        /\ ~arg.trace => ret.trace = <<>>

\* Signed 123 / 0, traced.
C6_Witness ==
    /\ Called("div")
    /\ arg.signed /\ arg.trace
    /\ Digits(a) = <<123, 0, 0, 0>>
    /\ NatIsZero(Digits(b))
    /\ ret.flags.div_by_zero = 1
    /\ Len(ret.trace) = 2

(***************************************************************************)
(* C7: overflow = 1 iff signed and dividend = 0x80000000 and divisor =     *)
(* 0xFFFFFFFF; then quotient = 0x80000000 and remainder = 0 without        *)
(* iterating.  Unsigned, the same operands divide normally: quotient 0,    *)
(* remainder 0x80000000, overflow = 0.                                     *)
(***************************************************************************)
C7_DivideOverflow ==
    Called("div") =>
        LET special == /\ Digits(a) = TwoTo31
                       /\ Digits(b) = <<255, 255, 255, 255>>
        IN  /\ ret.flags.overflow \in {0, 1}
            /\ ret.flags.overflow = 1 <=> (arg.signed /\ special)
            /\ (arg.signed /\ special) =>
                  /\ Digits(ret.q_bits) = TwoTo31
                  /\ NatIsZero(Digits(ret.r_bits))
                  /\ ret.flags.div_by_zero = 0
                  /\ arg.trace =>
                        /\ Len(ret.trace) = 2
                        /\ ret.trace[2].phase = "finish"
            /\ (~arg.signed /\ special) =>
                  /\ NatIsZero(Digits(ret.q_bits))
                  /\ Digits(ret.r_bits) = TwoTo31
                  /\ arg.trace => Len(ret.trace) = W32 + 2

C7_Witness ==
    /\ Called("div")
    /\ arg.signed
    /\ Digits(a) = TwoTo31
    /\ Digits(b) = <<255, 255, 255, 255>>
    /\ ret.flags.overflow = 1
    /\ Digits(ret.q_bits) = TwoTo31

(***************************************************************************)
(* C8: multiply(rs1, rs2) returns (rs1 * rs2) mod 2^32, the low 32 bits of *)
(* the product.  multiply(12345678, -87654321) = 0xD91D0712.               *)
(***************************************************************************)
C8_MulLow32 ==
    Called("mul") =>
        /\ Digits(ret.rd_bits) = Low(NatMul(Digits(a), Digits(b)), 4)
        /\ (Digits(a) = <<78, 97, 188, 0>> /\ Digits(b) = <<79, 128, 198, 250>>) =>
              Digits(ret.rd_bits) = <<18, 7, 29, 217>>

C8_Witness ==
    /\ Called("mul")
    /\ Digits(a) = <<78, 97, 188, 0>>
    /\ Digits(b) = <<79, 128, 198, 250>>
    /\ Digits(ret.rd_bits) = <<18, 7, 29, 217>>

\* The product of x and y, both read as signed 32-bit values, lies in
\* [-2^31, 2^31 - 1].
SignedProductFits(x, y) ==
    LET p   == NatMul(Mag(x), Mag(y))
        lim == Pad(TwoTo31, 8)
    IN  IF IsNeg(x) # IsNeg(y) THEN ~NatLess(lim, p) ELSE NatLess(p, lim)

(***************************************************************************)
(* C9: multiply(rs1, rs2) returns overflow = 1 iff the product of rs1 and  *)
(* rs2, both read as signed 32-bit values, lies outside [-2^31, 2^31 - 1]. *)
(* mul_shift_add does not satisfy this: it sign-extends rs1 only and adds  *)
(* rs2's bit 31 with weight +2^31, so 1 * -1 returns overflow = 1.         *)
(***************************************************************************)
C9_MulOverflowIffSignedProductDoesNotFit ==
    Called("mul") => (ret.overflow = 1 <=> ~SignedProductFits(a, b))

(***************************************************************************)
(* C10: for every amount k in 0..31 the staged result is the single shift  *)
(* by k: sll gives out[i] = in[i-k] for i >= k and 0 below; srl gives      *)
(* out[i] = in[i+k] for i+k < 32 and 0 above; sra gives out[i] = in[i+k]   *)
(* for i+k < 32 and the original bit 31 in every vacated position.         *)
(***************************************************************************)
C10_ShiftByK ==
    LET k == arg.shamt
    IN  /\ Called("sll") =>
              /\ Len(ret) = W32
              /\ \A i \in 0..(W32 - 1) :
                    ret[i + 1] = IF i >= k THEN a[i - k + 1] ELSE 0
        /\ Called("srl") =>
              /\ Len(ret) = W32
              /\ \A i \in 0..(W32 - 1) :
                    ret[i + 1] = IF i + k < W32 THEN a[i + k + 1] ELSE 0
        /\ Called("sra") =>
              /\ Len(ret) = W32
              /\ \A i \in 0..(W32 - 1) :
                    ret[i + 1] = IF i + k < W32 THEN a[i + k + 1] ELSE a[W32]

\* An arithmetic shift of a negative value through three stages (1, 2, 4).
C10_Witness ==
    /\ Called("sra")
    /\ arg.shamt = 7
    /\ a[W32] = 1
    /\ a[W32 - 1] = 0
    /\ \A i \in (W32 - 8)..(W32 - 1) : ret[i + 1] = 1
    /\ ret[W32 - 8] = 0

(***************************************************************************)
(* C11: for every 32-bit vector v, sll, srl and sra with amount 0 return a *)
(* vector equal to v.                                                      *)
(***************************************************************************)
C11_ShiftByZeroIsIdentity ==
    (pc = "done" /\ op \in {"sll", "srl", "sra"} /\ arg.shamt = 0) => ret = a

C11_Witness ==
    /\ Called("sra")
    /\ arg.shamt = 0
    /\ a[W32] = 1
    /\ a[1] = 1
    /\ ret = a

(***************************************************************************)
(* C12: for every v in 0..2^32-1, u32_to_bits(v) is a list of exactly 32   *)
(* elements, each 0 or 1, whose element i is bit i of v, and bits_to_u32   *)
(* of it is v; for every 32-bit vector b, u32_to_bits(bits_to_u32(b)) = b. *)
(***************************************************************************)
C12_BitsRoundTrip ==
    /\ (/\ pc # "ready" /\ op = "u32_to_bits"
        /\ ~arg.value.neg /\ arg.value.mag[5] = 0) =>
            /\ pc = "done"
            /\ IsBits32(ret)
            /\ Digits(ret) = Low(arg.value.mag, 4)
            /\ bits_to_u32(ret) = Low(arg.value.mag, 4)
    /\ (pc # "ready" /\ op = "bits_to_u32") =>
            /\ pc = "done"
            /\ ret = Digits(a)
            /\ u32_to_bits(ret) = a

C12_Witness ==
    /\ Called("u32_to_bits")
    /\ arg.value = [neg |-> FALSE, mag |-> <<79, 128, 198, 250, 0>>]
    /\ ret[1] = 1 /\ ret[5] = 0 /\ ret[W32] = 1
    /\ bits_to_u32(ret) = <<79, 128, 198, 250>>

(***************************************************************************)
(* Reading the renderings back, for the properties.                        *)
(***************************************************************************)
\* The number a hex character stands for.
HexCharValue(c) == CHOOSE k \in 0..15 : HEXDIGITS[k + 1] = c

\* The value of "0x" and eight hex characters, as base-256 digits.
HexStringValue(str) ==
    [d \in 1..4 |-> 16 * HexCharValue(str[10 - 2 * d])
                     + HexCharValue(str[11 - 2 * d])]

\* The bit list (LSB first) that a grouped binary string of 35 characters
\* spells, MSB first, underscores at positions 9, 18 and 27.
BinStringBits(str) ==
    [i \in 1..W32 |->
        LET p == W32 - i           \* characters before it, without "_"
        IN  IF str[p + (p \div 8) + 1] = "1" THEN 1 ELSE 0]

IsGroupedBin(str) ==
    /\ Len(str) = 35
    /\ \A k \in 1..35 : IF k \in {9, 18, 27} THEN str[k] = "_"
                                              ELSE str[k] \in {"0", "1"}

\* p is value mod 2^32, for a Python int value and four digits p.
IsMod2p32(p, value) ==
    IF value.neg
    THEN Low(NatAdd(p, Low(value.mag, 4), 0), 4) = <<0, 0, 0, 0>>
    ELSE p = Low(value.mag, 4)

\* -2^31 <= value <= 2^31 - 1
FitsInt32(value) ==
    LET lim == Pad(TwoTo31, Len(value.mag))
    IN  IF value.neg THEN ~NatLess(lim, value.mag) ELSE NatLess(value.mag, lim)

(***************************************************************************)
(* C13: for every integer value, encode(value) gives the 32-bit pattern of *)
(* value mod 2^32, its bin and hex renderings spell the same pattern, and  *)
(* overflow = 1 iff value is outside [-2^31, 2^31 - 1]; a pattern is       *)
(* produced also when overflow = 1 (2^31 gives 0x80000000, overflow 1).    *)
(***************************************************************************)
C13_EncodeWraps ==
    (pc # "ready" /\ op = "encode") =>
        /\ pc = "done"
        /\ Len(ret.hex) = 9 /\ ret.hex[1] = "0x"
        /\ \A k \in 2..9 : \E n \in 1..16 : ret.hex[k] = HEXDIGITS[n]
        /\ IsGroupedBin(ret.bin)
        /\ IsMod2p32(HexStringValue(ret.hex), arg.value)
        /\ Digits(BinStringBits(ret.bin)) = HexStringValue(ret.hex)
        /\ ret.overflow_flag = IF FitsInt32(arg.value) THEN 0 ELSE 1
        /\ (arg.value = [neg |-> FALSE, mag |-> <<0, 0, 0, 128, 0>>]) =>
              /\ ret.hex = <<"0x", "8", "0", "0", "0", "0", "0", "0", "0">>
              /\ ret.overflow_flag = 1

C13_Witness ==
    /\ Called("encode")
    /\ arg.value = [neg |-> FALSE, mag |-> <<0, 0, 0, 128, 0>>]
    /\ ret.hex = <<"0x", "8", "0", "0", "0", "0", "0", "0", "0">>
    /\ ret.overflow_flag = 1

(***************************************************************************)
(* C14: for every unsigned u in [0, 2^32 - 1], given as an integer or as   *)
(* its MSB-first binary string, decode returns u if bit 31 of u is 0 and   *)
(* u - 2^32 otherwise, a value in [-2^31, 2^31 - 1]; and                   *)
(* decode(encode(v).bin) = v exactly when encode(v).overflow = 0.          *)
(***************************************************************************)
\* The unsigned number a decode call was given.
DecodeInput ==
    IF arg.type = "str" THEN Digits(a) ELSE Low(arg.bits_in.mag, 4)

\* The decode call was given a number in [0, 2^32 - 1].
DecodeInputInRange ==
    IF arg.type = "int" THEN ~arg.bits_in.neg /\ arg.bits_in.mag[5] = 0
    ELSE arg.bits_in \in BinStrings(a)

C14_DecodeReadsBit31AsSign ==
    /\ (pc # "ready" /\ op = "decode" /\ DecodeInputInRange) =>
          /\ pc = "done"
          /\ FitsInt32(ret.value)
          /\ IF DecodeInput[4] < 128
             THEN ret.value = [neg |-> FALSE, mag |-> DecodeInput \o <<0>>]
             ELSE /\ ret.value.neg
                  /\ NatAdd(DecodeInput \o <<0>>, ret.value.mag, 0)
                         = <<0, 0, 0, 0, 1, 0>>
    /\ Called("encode") =>
          /\ validate_bit_string_32(ret.bin) = ""
          /\ (decode_str(ret.bin).value = arg.value) <=> (ret.overflow_flag = 0)

C14_Witness ==
    /\ Called("decode")
    /\ arg.type = "str"
    /\ Len(arg.bits_in) = 35
    /\ Digits(a) = <<255, 255, 255, 255>>
    /\ ret.value = [neg |-> TRUE, mag |-> <<1, 0, 0, 0, 0>>]

\* bits with every position from from_width on (0-based) inverted.
FlipFrom(bits, from_width) ==
    [k \in 1..Len(bits) |-> IF k > from_width THEN 1 - bits[k] ELSE bits[k]]

(***************************************************************************)
(* C15: with 1 <= fromWidth <= len(bits) and toWidth >= fromWidth,         *)
(* signExtend and zeroExtend return a list of length exactly toWidth whose *)
(* positions 0..fromWidth-1 equal those of bits and whose positions        *)
(* fromWidth..toWidth-1 all equal bits[fromWidth-1] (signExtend) or 0      *)
(* (zeroExtend); the input's bits at positions >= fromWidth never          *)
(* influence the output.                                                   *)
(***************************************************************************)
C15_ExtendFillsHighPositions ==
    (/\ pc # "ready" /\ op \in {"sign_extend", "zero_extend"}
     /\ 1 <= arg.from_width /\ arg.from_width <= Len(arg.bits)
     /\ arg.to_width >= arg.from_width) =>
        /\ pc = "done"
        /\ Len(ret) = arg.to_width
        /\ \A k \in 1..arg.from_width : ret[k] = arg.bits[k]
        /\ \A k \in (arg.from_width + 1)..arg.to_width :
              ret[k] = IF op = "sign_extend" THEN arg.bits[arg.from_width]
                                            ELSE 0
        /\ ret = IF op = "sign_extend"
                 THEN sign_extend(FlipFrom(arg.bits, arg.from_width),
                                  arg.from_width, arg.to_width)
                 ELSE zero_extend(FlipFrom(arg.bits, arg.from_width),
                                  arg.from_width, arg.to_width)

C15_Witness ==
    /\ Called("sign_extend")
    /\ Len(arg.bits) = W32
    /\ arg.from_width = 16 /\ arg.to_width = 32
    /\ arg.bits[16] = 1 /\ arg.bits[17] = 0 /\ arg.bits[W32] = 1
    /\ ret[17] = 1 /\ ret[18] = 1 /\ ret[W32] = 1

(***************************************************************************)
(* C17: for add, sub, multiply and divideRestoring and every pair of       *)
(* inputs, the numeric outputs with tracing enabled (result, quotient and  *)
(* remainder bits and all flags) are identical to the outputs with tracing *)
(* disabled.                                                               *)
(***************************************************************************)
\* The outputs of a call other than its trace.
NumericOutputs(name, r) ==
    CASE name \in {"add", "sub"} -> <<r.sum_bits, r.N, r.Z, r.C, r.V>>
      [] name = "mul" -> <<r.rd_bits, r.overflow>>
      [] name = "div" -> <<r.q_bits, r.r_bits, r.flags>>

\* What the call of the current state returns with the trace flag t.
SameCallWithTrace(t) ==
    CASE op = "add" -> add_bits(a, b, t)
      [] op = "sub" -> sub_bits(a, b, t)
      [] op = "mul" -> mul_shift_add(a, b, t)
      [] op = "div" -> div_restoring(a, b, arg.signed, t)

C17_TraceDoesNotChangeOutputs ==
    (pc = "done" /\ op \in {"add", "sub", "mul", "div"} /\ arg.trace) =>
        /\ ret.trace # <<>>
        /\ SameCallWithTrace(FALSE).trace = <<>>
        /\ NumericOutputs(op, ret) = NumericOutputs(op, SameCallWithTrace(FALSE))

C17_Witness ==
    /\ Called("div")
    /\ arg.trace /\ arg.signed
    /\ Len(ret.trace) > 2
    /\ a[W32] = 1 /\ b[W32] = 0
    /\ ret.q_bits[W32] = 1
    /\ ~is_zero(ret.r_bits)
    /\ ret.q_bits = div_restoring(a, b, TRUE, FALSE).q_bits

(***************************************************************************)
(* C19: with tracing enabled multiply returns a trace of exactly 32        *)
(* entries for every input, entry i having step = i, mul_bit = bit i of    *)
(* rs2 and added = mul_bit, the accumulator snapshot unchanged from entry  *)
(* i-1 whenever mul_bit = 0; with tracing disabled the trace is empty.     *)
(***************************************************************************)
C19_MulTraceHas32Rows ==
    Called("mul") =>
        IF arg.trace
        THEN /\ Len(ret.trace) = 32
             /\ \A i \in 0..31 :
                   LET row == ret.trace[i + 1]
                   IN  /\ row.step = i
                       /\ row.mul_bit = b[i + 1]
                       /\ row.added = row.mul_bit
                       /\ (i > 0 /\ row.mul_bit = 0) =>
                             /\ row.acc_low32_hex = ret.trace[i].acc_low32_hex
                             /\ row.acc_hi32_hex = ret.trace[i].acc_hi32_hex
        ELSE ret.trace = <<>>

C19_Witness ==
    /\ Called("mul")
    /\ arg.trace
    /\ b[1] = 0 /\ b[2] = 1 /\ b[3] = 0
    /\ ~is_zero(a)
    /\ Len(ret.trace) = 32
    /\ ret.trace[2].added = 1 /\ ret.trace[3].added = 0
    /\ ret.trace[3].acc_low32_hex = ret.trace[2].acc_low32_hex
    /\ ret.trace[2].acc_low32_hex # ret.trace[1].acc_low32_hex

(***************************************************************************)
(* C20: for every binary32 pattern u that is not a NaN (zero, subnormal,   *)
(* normal, infinity, of either sign), pack(unpack(u).value).bits = u;      *)
(* equivalently unpack(pack(x).bits).value = x for every value x exactly   *)
(* representable in binary32, including +0, -0 and subnormals.             *)
(***************************************************************************)
C20_PackUnpackRoundTrip ==
    (/\ Called("pack") /\ arg.value = unpack_f32(a).value
     /\ arg.value.cls # "nan") =>
        /\ ret.bits = a
        /\ unpack_f32(ret.bits).value = arg.value

(***************************************************************************)
(* The two kinds of error.  Every check raises a ValueError; the kind is   *)
(* told by the check that raised it.                                       *)
(***************************************************************************)
\* Raised for a list that is not 32 elements of 0/1.
FormatErrors ==
    {"bits must contain exactly 32 elements", "bits must contain only 0 or 1",
     "a and b must be 32 bits long", "bits must be 0/1",
     "bits must have length 32", "bits must contain only 0/1", "need 32 bits"}

\* Raised for a scalar outside its domain.
RangeErrors ==
    {"value must be in 0..0xFFFFFFFF", "integer input must be in 0..0xFFFFFFFF",
     "shamt must be in 0..31", "from_width must be in 1..len(bits)",
     "to_width must be >= from_width"}

\* Raised by the other checks and by the host.
OtherErrors ==
    {"binary string must be 32 characters of '0'/'1'",
     "bits must be a list of 0/1", "float too large to pack with f format"}

OneVectorOps ==
    {"bits_to_u32", "pretty_bin32", "pretty_hex32", "sll", "srl", "sra",
     "unpack"}

TwoVectorOps == {"add", "sub", "mul", "div", "fadd", "fsub", "fmul"}

\* A Python int outside [0, 2^32 - 1].
OutsideU32(value) == value.neg \/ value.mag[5] # 0

Rejected(kind) == pc = "raised" /\ ret \in kind

(***************************************************************************)
(* C16: every public operation rejects invalid input with an error raised  *)
(* at its start, returning no result and no partial trace: a list that is  *)
(* not exactly 32 elements of 0/1 (toUnsigned, formatting, the shifts,     *)
(* add, sub, multiply, divideRestoring, unpack, fadd/fsub/fmul) is a       *)
(* FormatError; a scalar outside its domain (fromUnsigned value or decode  *)
(* integer outside [0, 2^32 - 1], shift amount outside [0, 31],            *)
(* toWidth < fromWidth, fromWidth outside [1, len(bits)]) is a RangeError; *)
(* an invalid second operand is rejected even if the first is valid.       *)
(***************************************************************************)
C16_InvalidInputIsRejected ==
    pc # "ready" =>
        /\ (op \in OneVectorOps /\ ~IsBits32(a)) => Rejected(FormatErrors)
        /\ (op \in TwoVectorOps /\ (~IsBits32(a) \/ ~IsBits32(b))) =>
              Rejected(FormatErrors)
        /\ (op \in {"sll", "srl", "sra"} /\ IsBits32(a)
               /\ arg.shamt \notin 0..31) => Rejected(RangeErrors)
        /\ (op = "u32_to_bits" /\ OutsideU32(arg.value)) =>
              Rejected(RangeErrors)
        /\ (op = "decode" /\ arg.type = "int" /\ OutsideU32(arg.bits_in)) =>
              Rejected(RangeErrors)
        /\ (op \in {"sign_extend", "zero_extend"}
               /\ (\A k \in 1..Len(arg.bits) : arg.bits[k] \in {0, 1})
               /\ \/ arg.from_width \notin 1..Len(arg.bits)
                  \/ arg.to_width < arg.from_width) => Rejected(RangeErrors)
        /\ pc = "raised" =>
              ret \in FormatErrors \cup RangeErrors \cup OtherErrors

C16_Witness ==
    /\ pc = "raised"
    /\ op = "div"
    /\ IsBits32(a)
    /\ Len(b) = W32 /\ b[W32] = 2
    /\ ret = "bits must be 0/1"

\* The entries of a trace that are not its start or finish record.
StepEntries(name, t) ==
    {k \in 1..Len(t) :
        IF name \in {"add", "sub", "div"} THEN t[k].phase = "iter" ELSE TRUE}

(***************************************************************************)
(* C18, as stated: every trace returned by add, sub, multiply,             *)
(* divideRestoring, fadd, fsub or fmul has at most 32 step entries, and at *)
(* most 33 entries when the start and finish records are counted.          *)
(***************************************************************************)
C18_TraceAtMost33Entries ==
    (pc = "done" /\ op \in TwoVectorOps) =>
        /\ Cardinality(StepEntries(op, ret.trace)) <= 32
        /\ Len(ret.trace) <= 33

(***************************************************************************)
(* C18, amended: every trace returned by add, sub, multiply,               *)
(* divideRestoring, fadd, fsub or fmul has at most 32 step entries, and at *)
(* most 34 entries when the start and finish records are counted.          *)
(***************************************************************************)
C18_TraceAtMost34Entries ==
    (pc = "done" /\ op \in TwoVectorOps) =>
        /\ Cardinality(StepEntries(op, ret.trace)) <= 32
        /\ Len(ret.trace) <= 34

C18_Witness ==
    /\ Called("add")
    /\ arg.trace
    /\ Len(ret.trace) = 34
    /\ ret.trace[1].phase = "start"
    /\ ret.trace[34].phase = "finish"
    /\ Cardinality(StepEntries("add", ret.trace)) = 32

(***************************************************************************)
(* The binary32 pattern nearest to a finite, non-zero real, ties to even:  *)
(* the value rounded to 24 significant bits and to a multiple of 2^-149,   *)
(* an infinity when the rounded magnitude reaches 2^128.                   *)
(***************************************************************************)
NearestBinary32(value) ==
    LET r == RoundNearestEven(value, SIG_BITS, 1 - BIAS - FRAC_BITS)
    IN  IF r.cls = "finite" /\ r.exp + Len(r.sig) - 1 > BIAS
        THEN U32OfFields(value.s, 255, 0)
        ELSE struct_pack(r)

(***************************************************************************)
(* C21: for every finite non-zero input, with any number of significand    *)
(* bits beyond the 23 stored, pack returns the binary32 pattern nearest to *)
(* the input, ties to even (every discarded bit below the round bit counts *)
(* as sticky); a carry out of the significand increments the exponent, a   *)
(* subnormal carry gives the smallest normal, an exponent field of 255     *)
(* gives infinity with fraction 0.                                         *)
(***************************************************************************)
C21_PackRoundsToNearestEven ==
    (Called("pack") /\ arg.value.cls = "finite") =>
        ret.bits = u32_to_bits(NearestBinary32(arg.value))

(***************************************************************************)
(* The fields of a pattern read from its bit list: the exponent field is   *)
(* bits 23..30, the fraction field bits 0..22.                             *)
(***************************************************************************)
ExponentField(bits) == BitsValue(SubSeq(bits, FRAC_BITS + 1, FRAC_BITS + 8))

FractionIsZero(bits) == \A i \in 1..FRAC_BITS : bits[i] = 0

\* The pattern with the other sign bit.
OtherSign(bits) == [bits EXCEPT ![W32] = 1 - bits[W32]]

(***************************************************************************)
(* C22: unpack's class is a function of the exponent field e and the       *)
(* fraction field f alone, whatever the sign bit: e = 255 gives inf when   *)
(* f = 0 and nan otherwise, e = 0 gives zero when f = 0 and subnormal      *)
(* otherwise, any other e gives normal; every pattern gets exactly one of  *)
(* the five classes.                                                       *)
(***************************************************************************)
C22_ClassFromExponentAndFraction ==
    Called("unpack") =>
        LET e == ExponentField(a)
            z == FractionIsZero(a)
        IN  /\ ret.class \in {"zero", "subnormal", "normal", "inf", "nan"}
            /\ ret.class = "inf" <=> (e = 255 /\ z)
            /\ ret.class = "nan" <=> (e = 255 /\ ~z)
            /\ ret.class = "zero" <=> (e = 0 /\ z)
            /\ ret.class = "subnormal" <=> (e = 0 /\ ~z)
            /\ ret.class = "normal" <=> (e \notin {0, 255})
            /\ unpack_f32(OtherSign(a)).class = ret.class

\* A negative subnormal has been unpacked.
C22_Witness ==
    /\ Called("unpack")
    /\ a[W32] = 1
    /\ ExponentField(a) = 0 /\ ~FractionIsZero(a)
    /\ ret.class = "subnormal"

(***************************************************************************)
(* The float operations read back: the operands as floats, the exact real  *)
(* result of two finite operands, and the class of the returned pattern.   *)
(***************************************************************************)
FloatOps == {"fadd", "fsub", "fmul"}

FloatCalled == pc \in {"done", "raised"} /\ op \in FloatOps

FloatReturned == pc = "done" /\ op \in FloatOps

\* The exact sum, difference or product of two finite floats.
ExactResult(name, x, y) ==
    IF x.cls = "zero" \/ y.cls = "zero"
    THEN HostResult(CASE name = "fadd" -> "add"
                      [] name = "fsub" -> "sub"
                      [] name = "fmul" -> "mul", x, y, 1)
    ELSE CASE name = "fadd" -> FiniteSum(x, y)
           [] name = "fsub" -> FiniteSum(x, FloatNeg(y))
           [] name = "fmul" -> FiniteProduct(x, y)

\* A real whose nearest binary32 value lies beyond the largest finite one.
BeyondBinary32(v) ==
    /\ v.cls = "finite"
    /\ FieldsOfU32(NearestBinary32(v)).e = 255

ResultClass == unpack_f32(ret.res_bits).class

(***************************************************************************)
(* C23: fadd, fsub and fmul on two finite operands whose exact result lies *)
(* beyond the binary32 range return normally, the result pattern an        *)
(* infinity and overflow = 1; overflow = 1 exactly when both inputs are    *)
(* finite and the returned result is infinite.                             *)
(***************************************************************************)
C23_OverflowSaturatesToInfinity ==
    FloatCalled =>
        LET x == FloatOfBits(a)
            y == FloatOfBits(b)
        IN  /\ (/\ IsFinite(x) /\ IsFinite(y)
                /\ BeyondBinary32(ExactResult(op, x, y))) =>
                    /\ pc = "done"
                    /\ ResultClass = "inf"
                    /\ ret.flags.overflow = 1
            /\ pc = "done" =>
                    (ret.flags.overflow = 1 <=>
                        (IsFinite(x) /\ IsFinite(y) /\ ResultClass = "inf"))

(***************************************************************************)
(* C24: for fadd, fsub and fmul, invalid = 1 exactly when the result is a  *)
(* NaN while neither input is a NaN; with a NaN input the result is a NaN  *)
(* and invalid = 0.                                                        *)
(***************************************************************************)
C24_InvalidIffNaNFromNonNaN ==
    FloatReturned =>
        LET x == FloatOfBits(a)
            y == FloatOfBits(b)
        IN  /\ ret.flags.invalid = 1 <=>
                    (ResultClass = "nan" /\ x.cls # "nan" /\ y.cls # "nan")
            /\ (x.cls = "nan" \/ y.cls = "nan") =>
                    (ResultClass = "nan" /\ ret.flags.invalid = 0)

(***************************************************************************)
(* C25: for fadd, fsub and fmul, underflow = 1 exactly when both inputs    *)
(* are finite and non-zero and the returned result is a zero or a          *)
(* subnormal; it is 0 when either input is zero.                           *)
(***************************************************************************)
C25_UnderflowIffTinyFromNonZero ==
    FloatReturned =>
        LET x == FloatOfBits(a)
            y == FloatOfBits(b)
        IN  /\ ret.flags.underflow = 1 <=>
                    (/\ x.cls = "finite" /\ y.cls = "finite"
                     /\ ResultClass \in {"zero", "subnormal"})
            /\ (x.cls = "zero" \/ y.cls = "zero") => ret.flags.underflow = 0

\* Bit 31 of the two's-complement negation ~y + 1 (mod 2^32) of a vector.
NegationBit31(y) ==
    LET ny == [d \in 1..4 |-> 255 - Digits(y)[d]]
    IN  Low(NatAdd(ny, <<0, 0, 0, 0>>, 1), 4)[4] \div 128

(***************************************************************************)
(* C27: for sub(a, b), V follows the add rule applied to a and the two's-  *)
(* complement negation ~b + 1 of b: V = 1 exactly when a and ~b + 1 have   *)
(* the same bit 31 and bit 31 of the result differs from it, for every a   *)
(* and b, b = 0x80000000 included.                                         *)
(***************************************************************************)
C27_SubOverflowIsAddRuleOnNegation ==
    Called("sub") =>
        (ret.V = 1 <=>
            (a[W32] = NegationBit31(b) /\ ret.sum_bits[W32] # a[W32]))

(***************************************************************************)
(* The reference product of the multiplier's loop: rs1 sign-extended to 64 *)
(* bits, as eight digits, times the unsigned value of the n low bits of    *)
(* rs2, modulo 2^64.                                                       *)
(***************************************************************************)
Sext64Digits(x) ==
    Digits(x) \o (IF x[W32] = 1 THEN <<255, 255, 255, 255>>
                                ELSE <<0, 0, 0, 0>>)

LowBitsDigits(y, n) == Digits([k \in 1..W32 |-> IF k <= n THEN y[k] ELSE 0])

PartialProduct(x, y, n) ==
    Low(NatMul(Sext64Digits(x), LowBitsDigits(y, n)), 8)

(***************************************************************************)
(* C28: in multiply's loop, after bits 0..i of rs2 the 64-bit accumulator  *)
(* is sext64(rs1) * (rs2 mod 2^(i+1)) mod 2^64, the bits of rs2 weighted   *)
(* as an unsigned value (bit 31 adds rs1 * 2^31); the final accumulator is *)
(* signed(rs1) * unsigned(rs2) mod 2^64, and multiply(12345678,            *)
(* 0xFFFFFFFF) returns 0xFF439EB2 with overflow = 1.                       *)
(***************************************************************************)
C28_MulAccumulatorInvariant ==
    /\ pc = "mul_loop" =>
          LET st == locals.st
          IN  /\ Digits(st.acc) = PartialProduct(a, b, st.i)
              /\ (arg.trace /\ st.i > 0) =>
                    /\ Len(st.rows) = st.i
                    /\ HexStringValue(st.rows[st.i].acc_low32_hex)
                           = Low(PartialProduct(a, b, st.i), 4)
                    /\ HexStringValue(st.rows[st.i].acc_hi32_hex)
                           = SubSeq(PartialProduct(a, b, st.i), 5, 8)
    /\ Called("mul") =>
          /\ Digits(locals.st.acc) = PartialProduct(a, b, W32)
          /\ Digits(ret.rd_bits) = Low(PartialProduct(a, b, W32), 4)
          /\ ret.overflow = 1 <=>
                (SubSeq(PartialProduct(a, b, W32), 5, 8)
                    # (IF ret.rd_bits[W32] = 1 THEN <<255, 255, 255, 255>>
                                              ELSE <<0, 0, 0, 0>>))
          /\ (Digits(a) = <<78, 97, 188, 0>>
                  /\ Digits(b) = <<255, 255, 255, 255>>) =>
                /\ Digits(ret.rd_bits) = <<178, 158, 67, 255>>
                /\ ret.overflow = 1

\* multiply(12345678, 0xFFFFFFFF), traced, after its last iteration: bit 31
\* of rs2 has been added.
C28_Witness ==
    /\ pc = "mul_loop"
    /\ arg.trace
    /\ locals.st.i = W32
    /\ Digits(a) = <<78, 97, 188, 0>>
    /\ Digits(b) = <<255, 255, 255, 255>>
    /\ locals.st.rows[W32].added = 1
    /\ SubSeq(Digits(locals.st.acc), 1, 4) = <<178, 158, 67, 255>>

(***************************************************************************)
(* The reference quantities of the divider's loop: the magnitudes of the   *)
(* operands, the k high bits of M (floor(M / 2^(32 - k))) and the k        *)
(* quotient bits produced so far, as base-256 digits.                      *)
(***************************************************************************)
DividendMagnitude == ListOf(IF arg.signed THEN Mag(a) ELSE Digits(a))

DivisorMagnitude == ListOf(IF arg.signed THEN Mag(b) ELSE Digits(b))

HighBitsDigits(M, k) ==
    ListOf(DigitsOfBits(SubSeq(BitsOfDigits(M), W32 - k + 1, W32), 4))

QuotientBitsSoFar(Q, k) == ListOf(DigitsOfBits(SubSeq(Q, 1, k), 4))

\* 2 * R + msb: the remainder register after the shift, five digits.
ShiftedRemainder(R, msb) ==
    LET r == ListOf(DigitsOfBits(R, 5)) IN Low(NatAdd(r, r, msb), 5)

(***************************************************************************)
(* C29: in divideRestoring's loop (divisor magnitude D # 0, dividend       *)
(* magnitude M), after each iteration k = 1..32 the 33-bit remainder       *)
(* register has bit 32 clear, R < D and floor(M / 2^(32 - k)) =            *)
(* q_k * D + R with q_k the k quotient bits produced so far; and in every  *)
(* iteration bit 32 of the tentative difference is 1 exactly when the      *)
(* shifted remainder is smaller than D, the iteration restoring (quotient  *)
(* bit 0, remainder kept) in that case and keeping the difference          *)
(* (quotient bit 1) otherwise.                                             *)
(***************************************************************************)
C29_RestoringDivisionInvariant ==
    /\ [](pc = "div_loop" =>
            LET k == locals.st.step
                R == locals.st.R
                Q == locals.st.Q
                M == DividendMagnitude
                D == DivisorMagnitude
            IN  /\ ~NatIsZero(D)
                /\ R[W33] = 0
                /\ NatLess(DigitsOfBits(R, 5), Pad(D, 5))
                /\ NatAdd(NatMul(QuotientBitsSoFar(Q, k), D),
                          Pad(ListOf(DigitsOfBits(R, 5)), 8), 0)
                      = Pad(HighBitsDigits(M, k), 9))
    /\ [][(pc = "div_loop" /\ locals.st.step < W32 /\ locals' # locals) =>
            LET D     == DivisorMagnitude
                Rbits == <<locals.st.Q[W32]>> \o SubSeq(locals.st.R, 1, W32)
                Rs    == ShiftedRemainder(locals.st.R, locals.st.Q[W32])
                diff  == sub_n(Rbits, BitsOfDigits(D) \o <<0>>).diff
            IN  /\ locals'.st.step = locals.st.step + 1
                /\ DigitsOfBits(Rbits, 5) = Rs
                /\ diff[W33] = 1 <=> NatLess(Rs, Pad(D, 5))
                /\ IF diff[W33] = 1
                   THEN locals'.st.R = Rbits /\ locals'.st.Q[1] = 0
                   ELSE locals'.st.R = diff /\ locals'.st.Q[1] = 1]_vars

\* 12345678 / 123, unsigned, after the 32 iterations: quotient 100371,
\* remainder 45, with iterations that restored and iterations that kept.
C29_Witness ==
    /\ pc = "div_loop"
    /\ ~arg.signed
    /\ locals.st.step = W32
    /\ Digits(a) = <<78, 97, 188, 0>>
    /\ Digits(b) = <<123, 0, 0, 0>>
    /\ Digits(locals.st.Q) = <<19, 136, 1, 0>>
    /\ DigitsOfBits(locals.st.R, 5) = <<45, 0, 0, 0, 0>>

(***************************************************************************)
(* C30: a divideRestoring trace for a non-zero divisor holds the start     *)
(* record, 32 iteration records with step = 0..31 ascending and the finish *)
(* record, in this order; each iteration record holds the quotient bit     *)
(* decided in the iteration and the values of the remainder and quotient   *)
(* registers after it, so that in unsigned mode the snapshots of the last  *)
(* iteration are the remainder and quotient of the finish record.          *)
(***************************************************************************)
C30_TraceFollowsTheRegisters ==
    /\ (pc = "div_loop" /\ arg.trace /\ locals.st.step > 0) =>
          LET k    == locals.st.step
              rows == locals.st.rows
              row  == rows[k + 1]
          IN  /\ Len(rows) = k + 1
              /\ rows[1].phase = "start"
              /\ row.phase = "iter"
              /\ row.step = k - 1
              /\ row.qb = locals.st.Q[1]
              /\ HexStringValue(row.Q_hex) = Digits(locals.st.Q)
              /\ HexStringValue(row.R_top_hex)
                    = Digits(SubSeq(locals.st.R, 1, W32))
    /\ (Called("div") /\ arg.trace /\ ~is_zero(b)) =>
          /\ Len(ret.trace) = W32 + 2
          /\ ret.trace[1].phase = "start"
          /\ \A i \in 1..W32 : /\ ret.trace[i + 1].phase = "iter"
                                /\ ret.trace[i + 1].step = i - 1
          /\ ret.trace[W32 + 2].phase = "finish"
          /\ ~arg.signed =>
                /\ ret.trace[W32 + 1].Q_hex = ret.trace[W32 + 2].q_hex
                /\ ret.trace[W32 + 1].R_top_hex = ret.trace[W32 + 2].r_hex

(***************************************************************************)
(* What a finished call returned: the references of the lists it handed    *)
(* back, and its result with every list read out; and the result of the    *)
(* same call run alone on the same arguments.                              *)
(***************************************************************************)
ReturnedRefs(f) ==
    IF f.op \in {"add", "sub"} THEN {f.ret.sum_bits.ref, f.ret.trace.ref}
    ELSE IF f.op \in {"sll", "srl", "sra"} THEN {f.ret.ref}
    ELSE IF f.op = "mul" THEN {f.ret.rd_bits.ref, f.ret.trace.ref}
    ELSE {f.ret.q_bits.ref, f.ret.r_bits.ref, f.ret.trace.ref}

ReturnedValue(f) ==
    IF f.op \in {"add", "sub"}
    THEN [f.ret EXCEPT !.sum_bits = Elems(f.ret.sum_bits),
                       !.trace = Elems(f.ret.trace)]
    ELSE IF f.op \in {"sll", "srl", "sra"} THEN Elems(f.ret)
    ELSE IF f.op = "mul"
    THEN [f.ret EXCEPT !.rd_bits = Elems(f.ret.rd_bits),
                       !.trace = Elems(f.ret.trace)]
    ELSE [f.ret EXCEPT !.q_bits = Elems(f.ret.q_bits),
                       !.r_bits = Elems(f.ret.r_bits),
                       !.trace = Elems(f.ret.trace)]

RunAlone(f, x, y) ==
    CASE f.op = "add" -> add_bits(x, y, f.arg.trace)
      [] f.op = "sub" -> sub_bits(x, y, f.arg.trace)
      [] f.op = "sll" -> sll_bits(x, f.arg.shamt)
      [] f.op = "srl" -> srl_bits(x, f.arg.shamt)
      [] f.op = "sra" -> sra_bits(x, f.arg.shamt)
      [] f.op = "mul" -> mul_shift_add(x, y, f.arg.trace)
      [] f.op = "div" -> div_restoring(x, y, f.arg.signed, f.arg.trace)

(***************************************************************************)
(* C26: no step of a call changes the lists it was handed, every list a    *)
(* call returns (result vectors and traces, shift by 0 and the remainder   *)
(* of a division by zero included) is a new object and not one of the      *)
(* lists it was handed, and however the steps of concurrent calls on the   *)
(* same lists interleave, each call returns what the same call returns     *)
(* when run alone on its arguments.                                        *)
(***************************************************************************)
C26_CallsArePureUnderInterleaving ==
    /\ [][a' = a /\ b' = b]_vars
    /\ [](\A t \in Threads :
             calls[t].pc = "done" =>
                /\ ReturnedRefs(calls[t]) = {"new"}
                /\ ReturnedValue(calls[t]) = RunAlone(calls[t], a, b))

\* Both threads have returned: one from a division by zero, the other from
\* a shift by 0.
C26_Witness ==
    /\ calls[1].pc = "done"
    /\ calls[1].op = "div"
    /\ is_zero(b)
    /\ Elems(calls[1].ret.r_bits) = a
    /\ calls[2].pc = "done"
    /\ calls[2].op = "sll"
    /\ calls[2].arg.shamt = 0
    /\ Elems(calls[2].ret) = a
====
